---- MODULE Spec2Model ----
(***************************************************************************)
(* Share/block ledger of CPUCoin: Block, Blockchain, the share miner and   *)
(* the mining server's share submission, modelled from src/cpucoin.        *)
(*                                                                         *)
(* Python objects are shared by reference, so blocks live in a heap        *)
(* (blocks) and chain, current_open_block and the miners' local variables  *)
(* hold heap ids.  Hashes are unsigned integers of HASH_BITS bits; the     *)
(* empty string is EmptyStr.  argon2/scrypt and SHA-256 are external       *)
(* primitives and are modelled by fixed deterministic digests.             *)
(***************************************************************************)
EXTENDS Integers, Sequences, FiniteSets, TLC

\* ---------------------------------------------------------------- bounds
\* config.SHARES_PER_BLOCK, scaled down from 100
SHARES_PER_BLOCK == 2
\* config.DIFFICULTY_ADJUSTMENT_INTERVAL, scaled down from 10
DIFFICULTY_ADJUSTMENT_INTERVAL == 2
\* config.MAX_TRANSACTIONS_PER_BLOCK, scaled down from 100
MAX_TRANSACTIONS_PER_BLOCK == 2
\* width of a hash value, scaled down from 256
HASH_BITS == 20
\* nonces tried by callers are 0..MaxNonce
MaxNonce == 3
\* number of Block objects ever allocated
MaxBlocks == 3
\* number of clock advances
MaxTicks == 1
\* length of the chains calculate_difficulty is applied to
MaxChain == 3
\* transaction ids offered to the pending pool are 1..MaxTx
MaxTx == 2
\* number of create_block calls made on a chain drawn for calculate_difficulty
MaxCreated == 2
\* length of the lists given to merkle_root
MaxLeaves == 5
\* MultiThreadedShareMiner.num_threads
NumThreads == 3
\* number of MultiThreadedShareMiner.mine_share calls
MaxCalls == 2
\* number of Node.start calls that start threads
MaxStarts == 2
\* sys.float_info.max_exp, scaled down from 1024: an int of 2^FLOAT_MAX_EXP or
\* more has no float
FLOAT_MAX_EXP == 8

\* ------------------------------------------------------ program constants
INITIAL_SHARE_DIFFICULTY == 4
INITIAL_BLOCK_DIFFICULTY == 12
BLOCK_DIFFICULTY_OFFSET == 8
BLOCK_TIME_TARGET == 900
BLOCK_REWARD == 50
HALVING_INTERVAL == 210000
GENESIS_TIMESTAMP == 1703548800
\* validate_block: "block.timestamp > time.time() + 7200"
FUTURE_TOLERANCE == 7200
\* the empty string (Block.hash, Block.miner, Block.merkle_root defaults)
EmptyStr == -1
\* None (current_open_block, get_next_share_index)
None == 0
\* "0" * 64
ZeroHash == 0

PubKeys == {"", "alice", "bob"}
Nonces == 0..MaxNonce

\* ---------------------------------------------------------------- helpers
Range(s) == {s[i] : i \in 1..Len(s)}

Pow2(n) == 2 ^ n

Min(a, b) == IF a < b THEN a ELSE b

Max(a, b) == IF a > b THEN a ELSE b

RECURSIVE SelectTx(_, _)
\* [tx for tx in s if tx['txid'] not in ids]
SelectTx(s, ids) ==
    IF s = <<>> THEN <<>>
    ELSE IF Head(s).txid \in ids THEN SelectTx(Tail(s), ids)
         ELSE <<Head(s)>> \o SelectTx(Tail(s), ids)

RECURSIVE SumFees(_)
SumFees(s) == IF s = <<>> THEN 0 ELSE Head(s).fee + SumFees(Tail(s))

\* ------------------------------------------------------------ crypto_utils
\* int.bit_length()
RECURSIVE bit_length(_)
bit_length(n) == IF n = 0 THEN 0 ELSE 1 + bit_length(n \div 2)

\* check_difficulty that asks for more leading zero bits than difficulty
check_difficulty_strict(hash_hex, difficulty) ==
    LET meets(leading_zeros) == leading_zeros > difficulty
    IN  meets(IF hash_hex = 0 THEN HASH_BITS
              ELSE HASH_BITS - bit_length(hash_hex))

check_difficulty(hash_hex, difficulty) ==
    LET meets(leading_zeros) == leading_zeros >= difficulty
    IN  meets(IF hash_hex = 0 THEN HASH_BITS
              ELSE HASH_BITS - bit_length(hash_hex))

\* stand-in for sha256 of a string that encodes the integer x
sha256(x) == (x * 37 + 11) % Pow2(HASH_BITS)

\* stand-in for double_sha256(a + b)
double_sha256(a, b) == (a * 31 + b * 17 + 7) % Pow2(HASH_BITS)

RECURSIVE merkle_level(_)
\* the "Build tree" loop of merkle_root over an even-length list
merkle_level(hashes) ==
    IF hashes = <<>> THEN <<>>
    ELSE <<double_sha256(hashes[1], hashes[2])>>
            \o merkle_level(SubSeq(hashes, 3, Len(hashes)))

RECURSIVE merkle_root_in_place(_)
\* merkle_root that pads with hashes.append(hashes[-1])
merkle_root_in_place(hashes) ==
    IF hashes = <<>> THEN [ret |-> sha256(EmptyStr), hashes |-> hashes]
    ELSE IF Len(hashes) = 1 THEN [ret |-> hashes[1], hashes |-> hashes]
    ELSE LET padded == IF Len(hashes) % 2 = 1
                       THEN hashes \o <<hashes[Len(hashes)]>>
                       ELSE hashes
         IN  [ret |-> merkle_root_in_place(merkle_level(padded)).ret,
              hashes |-> padded]

RECURSIVE merkle_root(_)
\* ret is the root, hashes the caller's list after the call: padding builds
\* a new list and binds the local name to it
merkle_root(hashes) ==
    IF hashes = <<>> THEN [ret |-> sha256(EmptyStr), hashes |-> hashes]
    ELSE IF Len(hashes) = 1 THEN [ret |-> hashes[1], hashes |-> hashes]
    ELSE LET padded == IF Len(hashes) % 2 = 1
                       THEN hashes \o <<hashes[Len(hashes)]>>
                       ELSE hashes
         IN  [ret |-> merkle_root(merkle_level(padded)).ret,
              hashes |-> hashes]

MinerCode(m) ==
    CASE m = "" -> 0
      [] m = "genesis" -> 1
      [] m = "alice" -> 2
      [] m = "bob" -> 3

\* stand-in for the digest of the JSON header string followed by the nonce
HeaderCode(header) ==
    header.index * 7
    + ((header.timestamp - GENESIS_TIMESTAMP) \div BLOCK_TIME_TARGET) * 5
    + (header.merkle_root + 1) * 13
    + header.previous_hash * 17
    + header.share_difficulty * 19
    + header.block_difficulty * 23
    + MinerCode(header.miner) * 29

\* number of leading zero bits of the digest of x: none, enough for a share
\* only, or enough for a block
Quality(x) ==
    CASE x % 4 = 0 -> 0
      [] x % 4 = 1 -> INITIAL_SHARE_DIFFICULTY + 2
      [] x % 4 = 2 -> 1
      [] x % 4 = 3 -> INITIAL_BLOCK_DIFFICULTY + 2

\* sha256(argon2_hash(header + nonce, salt = prev_hash))
mining_hash(block_header, nonce, prev_hash) ==
    LET digest(x, low) == Pow2(low) + (x % Pow2(low))
        of(x) == digest(x, HASH_BITS - 1 - Quality(x))
    IN  of(HeaderCode(block_header) + 3 * nonce + (prev_hash % 8))

\* ------------------------------------------------------------------ Block
\* Block.__init__ and __post_init__ over the dataclass fields
Block(index, timestamp, transactions, previous_hash, nonce, share_difficulty, block_difficulty, hash, miner, merkle_root_in, is_closed, opened_at) ==
    [index |-> index,
     timestamp |-> timestamp,
     transactions |-> transactions,
     previous_hash |-> previous_hash,
     nonce |-> nonce,
     share_difficulty |-> share_difficulty,
     block_difficulty |-> block_difficulty,
     hash |-> hash,
     miner |-> miner,
     merkle_root |->
        IF merkle_root_in = EmptyStr /\ transactions # <<>>
        THEN merkle_root([i \in 1..Len(transactions) |->
                                transactions[i].txid]).ret
        ELSE merkle_root_in,
     claimed_shares |-> <<>>,
     share_claims |-> <<>>,
     is_closed |-> is_closed,
     block_finder_hash |-> EmptyStr,
     opened_at |-> opened_at]

compute_header(self) ==
    [index |-> self.index,
     timestamp |-> self.timestamp,
     merkle_root |-> self.merkle_root,
     previous_hash |-> self.previous_hash,
     share_difficulty |-> self.share_difficulty,
     block_difficulty |-> self.block_difficulty,
     miner |-> self.miner]

compute_hash(self) ==
    mining_hash(compute_header(self), self.nonce, self.previous_hash)

RECURSIVE UnclaimedFrom(_, _)
\* the list comprehension of get_unclaimed_shares, from index i on
UnclaimedFrom(claimed_set, i) ==
    IF i >= SHARES_PER_BLOCK THEN <<>>
    ELSE IF i \notin claimed_set
         THEN <<i>> \o UnclaimedFrom(claimed_set, i + 1)
         ELSE UnclaimedFrom(claimed_set, i + 1)

get_unclaimed_shares(self) ==
    LET claimed_set == Range(self.claimed_shares)
    IN  UnclaimedFrom(claimed_set, 0)

\* None as a share index (0 is a share)
NoShare == 0 - 1

\* get_next_share_index that hands out the highest unclaimed index
get_next_share_index_last(self) ==
    LET last_of(unclaimed) == IF unclaimed # <<>>
                              THEN unclaimed[Len(unclaimed)] ELSE NoShare
    IN  last_of(get_unclaimed_shares(self))

\* the lowest unclaimed share index, None when every share is claimed
get_next_share_index(self) ==
    LET first(unclaimed) == IF unclaimed # <<>> THEN unclaimed[1] ELSE NoShare
    IN  first(get_unclaimed_shares(self))

\* claim_share without its range check
claim_share_any_index(self, share_index, miner, nonce, hash_value, time) ==
    IF share_index \in Range(self.claimed_shares)
    THEN [self |-> self, ret |-> FALSE]
    ELSE [self |-> [self EXCEPT
                        !.claimed_shares = Append(@, share_index),
                        !.share_claims = Append(@,
                            [share_index |-> share_index,
                             miner |-> miner,
                             nonce |-> nonce,
                             hash |-> hash_value,
                             timestamp |-> time])],
          ret |-> TRUE]

\* claim_share without its already-claimed check
claim_share_again(self, share_index, miner, nonce, hash_value, time) ==
    IF share_index < 0 \/ share_index >= SHARES_PER_BLOCK
    THEN [self |-> self, ret |-> FALSE]
    ELSE [self |-> [self EXCEPT
                        !.claimed_shares = Append(@, share_index),
                        !.share_claims = Append(@,
                            [share_index |-> share_index,
                             miner |-> miner,
                             nonce |-> nonce,
                             hash |-> hash_value,
                             timestamp |-> time])],
          ret |-> TRUE]

\* returns the block after the call and the call's result
claim_share(self, share_index, miner, nonce, hash_value, time) ==
    IF share_index \in Range(self.claimed_shares)
    THEN [self |-> self, ret |-> FALSE]
    ELSE IF share_index < 0 \/ share_index >= SHARES_PER_BLOCK
    THEN [self |-> self, ret |-> FALSE]
    ELSE [self |-> [self EXCEPT
                        !.claimed_shares = Append(@, share_index),
                        !.share_claims = Append(@,
                            [share_index |-> share_index,
                             miner |-> miner,
                             nonce |-> nonce,
                             hash |-> hash_value,
                             timestamp |-> time])],
          ret |-> TRUE]

\* close_block that flips is_closed instead of setting it
close_block_toggle(self, miner, nonce, hash_value) ==
    [self EXCEPT !.is_closed = ~@,
                 !.miner = miner,
                 !.nonce = nonce,
                 !.hash = hash_value,
                 !.block_finder_hash = hash_value]

close_block(self, miner, nonce, hash_value) ==
    [self EXCEPT !.is_closed = TRUE,
                 !.miner = miner,
                 !.nonce = nonce,
                 !.hash = hash_value,
                 !.block_finder_hash = hash_value]

shares_remaining(self) == SHARES_PER_BLOCK - Len(self.claimed_shares)

is_fully_claimed(self) == Len(self.claimed_shares) >= SHARES_PER_BLOCK

is_valid(self) ==
    LET computed_hash == compute_hash(self)
    IN  IF self.is_closed
        THEN computed_hash = self.hash
             /\ check_difficulty(self.hash, self.block_difficulty)
        ELSE computed_hash = self.hash
             /\ check_difficulty(self.hash, self.share_difficulty)

\* ------------------------------------------------------------- Blockchain
\* A Blockchain object bc is a record of its fields together with the heap:
\*   blocks                 the heap, blocks[id] is the Block object id
\*   chain                  list of block ids
\*   pending_transactions   list of transactions
\*   share_difficulty, block_difficulty
\*   current_open_block     a block id or None

\* sha256(config.GENESIS_MESSAGE)
GenesisTxid == sha256(1)

\* sha256(f"coinbase-{height}-{time}")
CoinbaseTxid(height, time) ==
    sha256(100 + height * 10 + (time - GENESIS_TIMESTAMP) \div BLOCK_TIME_TARGET)

last_block(bc) == bc.blocks[bc.chain[Len(bc.chain)]]

height(bc) == Len(bc.chain) - 1

\* the object allocated next
NextId(bc) == Len(bc.blocks) + 1

alloc(bc, block) == [bc EXCEPT !.blocks = Append(@, block)]

\* the genesis block whose timestamp is the time of construction
_create_genesis_block_now(time) ==
    LET genesis_tx == [txid |-> GenesisTxid, type |-> "coinbase",
                       fee |-> 0, amount |-> 0]
        genesis == Block(0, time, <<genesis_tx>>, ZeroHash, 0,
                         INITIAL_SHARE_DIFFICULTY, INITIAL_BLOCK_DIFFICULTY,
                         EmptyStr, "genesis", EmptyStr, TRUE, time)
    IN  [genesis EXCEPT !.hash = compute_hash(genesis)]

\* the genesis block of a Blockchain constructed at time: opened_at is not
\* passed to Block, so __post_init__ sets it to time.time()
_create_genesis_block(time) ==
    LET genesis_tx == [txid |-> GenesisTxid, type |-> "coinbase",
                       fee |-> 0, amount |-> 0]
        genesis == Block(0, GENESIS_TIMESTAMP, <<genesis_tx>>, ZeroHash, 0,
                         INITIAL_SHARE_DIFFICULTY, INITIAL_BLOCK_DIFFICULTY,
                         EmptyStr, "genesis", EmptyStr, TRUE, time)
    IN  [genesis EXCEPT !.hash = compute_hash(genesis)]

\* Blockchain.__init__, called at time
Blockchain(time) ==
    [blocks |-> <<_create_genesis_block(time)>>,
     chain |-> <<1>>,
     pending_transactions |-> <<>>,
     share_difficulty |-> INITIAL_SHARE_DIFFICULTY,
     block_difficulty |-> INITIAL_BLOCK_DIFFICULTY,
     current_open_block |-> None]

\* amounts of CPU are floats; the model counts them in units of
\* 2^-FLOAT_MAX_EXP CPU, in which the quotients below are exact
UNIT == Pow2(FLOAT_MAX_EXP)

\* height = None means the next block, self.height + 1.  The division
\* converts the int 2 ** halvings to a float, which raises OverflowError
\* when the int has none
get_block_reward(bc, h) ==
    LET halvings == h \div HALVING_INTERVAL
    IN  IF halvings >= FLOAT_MAX_EXP
        THEN [raised |-> TRUE, value |-> 0]
        ELSE [raised |-> FALSE,
              value |-> (BLOCK_REWARD * UNIT) \div Pow2(halvings)]

get_share_value(bc, h) ==
    LET shared(block_reward) ==
            IF block_reward.raised THEN block_reward
            ELSE [raised |-> FALSE,
                  value |-> block_reward.value \div SHARES_PER_BLOCK]
    IN  shared(get_block_reward(bc, h))

\* calculate_difficulty that decrements without the floor of 1
calculate_difficulty_unfloored(bc) ==
    IF Len(bc.chain) < DIFFICULTY_ADJUSTMENT_INTERVAL + 1
    THEN <<bc.share_difficulty, bc.block_difficulty>>
    ELSE
    LET interval == DIFFICULTY_ADJUSTMENT_INTERVAL
        first == bc.blocks[bc.chain[Len(bc.chain) - interval + 1]]
        expected_time == BLOCK_TIME_TARGET * interval
        adjusted(new_share_difficulty) ==
            <<new_share_difficulty, new_share_difficulty + BLOCK_DIFFICULTY_OFFSET>>
        adjust(actual_time) ==
            adjusted(IF 2 * actual_time < expected_time
                     THEN bc.share_difficulty + 1
                     ELSE IF actual_time > expected_time * 2
                     THEN bc.share_difficulty - 1
                     ELSE bc.share_difficulty)
    IN  adjust(last_block(bc).timestamp - first.timestamp)

\* returns <<share_difficulty, block_difficulty>>
calculate_difficulty(bc) ==
    IF Len(bc.chain) < DIFFICULTY_ADJUSTMENT_INTERVAL + 1
    THEN <<bc.share_difficulty, bc.block_difficulty>>
    ELSE
    LET interval == DIFFICULTY_ADJUSTMENT_INTERVAL
        first == bc.blocks[bc.chain[Len(bc.chain) - interval + 1]]
        expected_time == BLOCK_TIME_TARGET * interval
        adjusted(new_share_difficulty) ==
            <<new_share_difficulty, new_share_difficulty + BLOCK_DIFFICULTY_OFFSET>>
        adjust(actual_time) ==
            adjusted(IF 2 * actual_time < expected_time
                     THEN bc.share_difficulty + 1
                     ELSE IF actual_time > expected_time * 2
                     THEN Max(1, bc.share_difficulty - 1)
                     ELSE bc.share_difficulty)
    IN  adjust(last_block(bc).timestamp - first.timestamp)

\* returns the Blockchain after the call and the call's result
add_transaction(bc, transaction) ==
    IF transaction.txid = EmptyStr
    THEN [bc |-> bc, ret |-> FALSE]
    ELSE IF \E i \in 1..Len(bc.pending_transactions) :
                bc.pending_transactions[i].txid = transaction.txid
    THEN [bc |-> bc, ret |-> FALSE]
    ELSE [bc |-> [bc EXCEPT !.pending_transactions = Append(@, transaction)],
          ret |-> TRUE]

\* create_block that adjusts share_difficulty alone, as the legacy
\* difficulty setter does
create_block_share_only(bc, miner_address, time) ==
    LET reward == get_block_reward(bc, height(bc) + 1).value
        fees == SumFees(bc.pending_transactions)
        coinbase == [txid |-> CoinbaseTxid(height(bc) + 1, time),
                     type |-> "coinbase", fee |-> 0, amount |-> reward + fees]
        transactions ==
            <<coinbase>> \o SubSeq(bc.pending_transactions, 1,
                Min(Len(bc.pending_transactions), MAX_TRANSACTIONS_PER_BLOCK - 1))
        created(d) ==
            [bc |-> alloc([bc EXCEPT !.share_difficulty = d[1]],
                          Block(height(bc) + 1, time, transactions,
                                last_block(bc).hash, 0, d[1],
                                bc.block_difficulty, EmptyStr,
                                miner_address, EmptyStr, FALSE, time)),
             ret |-> NextId(bc)]
    IN  created(calculate_difficulty(bc))

\* returns the Blockchain after the call (difficulties adjusted, the new
\* Block allocated) and the new block's id
create_block(bc, miner_address, time) ==
    LET reward == get_block_reward(bc, height(bc) + 1).value
        fees == SumFees(bc.pending_transactions)
        coinbase == [txid |-> CoinbaseTxid(height(bc) + 1, time),
                     type |-> "coinbase", fee |-> 0, amount |-> reward + fees]
        transactions ==
            <<coinbase>> \o SubSeq(bc.pending_transactions, 1,
                Min(Len(bc.pending_transactions), MAX_TRANSACTIONS_PER_BLOCK - 1))
        created(d) ==
            [bc |-> alloc([bc EXCEPT !.share_difficulty = d[1],
                                     !.block_difficulty = d[2]],
                          Block(height(bc) + 1, time, transactions,
                                last_block(bc).hash, 0, d[1], d[2], EmptyStr,
                                miner_address, EmptyStr, FALSE, time)),
             ret |-> NextId(bc)]
    IN  created(calculate_difficulty(bc))

\* get_or_create_open_block that only asks whether there is a block
get_or_create_open_block_stale(bc, time) ==
    LET opened(c) == [bc |-> [c.bc EXCEPT !.current_open_block = c.ret],
                      ret |-> c.ret]
    IN  IF bc.current_open_block = None
        THEN opened(create_block(bc, "", time))
        ELSE [bc |-> bc, ret |-> bc.current_open_block]

get_or_create_open_block(bc, time) ==
    LET opened(c) == [bc |-> [c.bc EXCEPT !.current_open_block = c.ret],
                      ret |-> c.ret]
    IN  IF bc.current_open_block = None
           \/ bc.blocks[bc.current_open_block].is_closed
        THEN opened(create_block(bc, "", time))
        ELSE [bc |-> bc, ret |-> bc.current_open_block]

\* validate_block without the previous-hash comparison
validate_block_unlinked(bc, block, previous_block, time) ==
    IF block.index # previous_block.index + 1 THEN FALSE
    ELSE IF ~is_valid(block) THEN FALSE
    ELSE IF block.timestamp > time + FUTURE_TOLERANCE THEN FALSE
    ELSE TRUE

validate_block(bc, block, previous_block, time) ==
    IF block.index # previous_block.index + 1 THEN FALSE
    ELSE IF block.previous_hash # previous_block.hash THEN FALSE
    ELSE IF ~is_valid(block) THEN FALSE
    ELSE IF block.timestamp > time + FUTURE_TOLERANCE THEN FALSE
    ELSE TRUE

\* add_block that appends the block although validate_block refused it
add_block_anyway(bc, block, time) ==
    IF ~validate_block(bc, bc.blocks[block], last_block(bc), time)
    THEN [bc |-> [bc EXCEPT !.chain = Append(@, block)], ret |-> FALSE]
    ELSE LET included_txids ==
                {bc.blocks[block].transactions[i].txid :
                    i \in 1..Len(bc.blocks[block].transactions)}
         IN  [bc |-> [bc EXCEPT
                        !.pending_transactions = SelectTx(@, included_txids),
                        !.chain = Append(@, block)],
              ret |-> TRUE]

\* add_block that leaves the pending pool as it is
add_block_keeps_pending(bc, block, time) ==
    IF ~validate_block(bc, bc.blocks[block], last_block(bc), time)
    THEN [bc |-> bc, ret |-> FALSE]
    ELSE [bc |-> [bc EXCEPT !.chain = Append(@, block)], ret |-> TRUE]

\* block is the id of a Block object
add_block(bc, block, time) ==
    IF ~validate_block(bc, bc.blocks[block], last_block(bc), time)
    THEN [bc |-> bc, ret |-> FALSE]
    ELSE LET included_txids ==
                {bc.blocks[block].transactions[i].txid :
                    i \in 1..Len(bc.blocks[block].transactions)}
         IN  [bc |-> [bc EXCEPT
                        !.pending_transactions = SelectTx(@, included_txids),
                        !.chain = Append(@, block)],
              ret |-> TRUE]

\* ret is the id of the closed block, added the result of the inner add_block
close_current_block(bc, miner, nonce, hash_value, time) ==
    LET opened(c) == [c.bc EXCEPT !.current_open_block = c.ret]
        added(id, a) == [bc |-> [a.bc EXCEPT !.current_open_block = None],
                         ret |-> id, added |-> a.ret]
        close(g) ==
            added(g.current_open_block,
                  add_block([g EXCEPT !.blocks[g.current_open_block] =
                                close_block(@, miner, nonce, hash_value)],
                            g.current_open_block, time))
    IN  close(IF bc.current_open_block = None
              THEN opened(create_block(bc, "", time))
              ELSE bc)

validate_chain(bc, time) ==
    \A i \in 2..Len(bc.chain) :
        validate_block(bc, bc.blocks[bc.chain[i]], bc.blocks[bc.chain[i - 1]], time)

\* config.py defines no INITIAL_DIFFICULTY: reading it raises AttributeError
config_has_INITIAL_DIFFICULTY == FALSE

\* validate_chain of the temporary Blockchain built around new_chain
validate_new_chain(bc, new_chain, time) ==
    \A i \in 2..Len(new_chain) :
        validate_block(bc, new_chain[i], new_chain[i - 1], time)

\* new_chain is a list of Block objects that are not in the heap yet;
\* raised = TRUE when the call ends in an exception instead of a result
replace_chain(bc, new_chain, time) ==
    LET swap(swapped) ==
            [bc |-> [swapped EXCEPT
                        !.share_difficulty = calculate_difficulty(swapped)],
             ret |-> TRUE, raised |-> FALSE]
    IN  IF Len(new_chain) <= Len(bc.chain)
        THEN [bc |-> bc, ret |-> FALSE, raised |-> FALSE]
        ELSE IF ~config_has_INITIAL_DIFFICULTY
        THEN [bc |-> bc, ret |-> FALSE, raised |-> TRUE]
        ELSE IF ~validate_new_chain(bc, new_chain, time)
        THEN [bc |-> bc, ret |-> FALSE, raised |-> FALSE]
        ELSE swap([bc EXCEPT
                    !.blocks = @ \o new_chain,
                    !.chain = [i \in 1..Len(new_chain) |-> Len(bc.blocks) + i]])

\* dataclasses.asdict(self): a dict of the fields, lists copied
Block_to_dict(self) ==
    [index |-> self.index,
     timestamp |-> self.timestamp,
     transactions |-> self.transactions,
     previous_hash |-> self.previous_hash,
     nonce |-> self.nonce,
     share_difficulty |-> self.share_difficulty,
     block_difficulty |-> self.block_difficulty,
     hash |-> self.hash,
     miner |-> self.miner,
     merkle_root |-> self.merkle_root,
     claimed_shares |-> self.claimed_shares,
     share_claims |-> self.share_claims,
     is_closed |-> self.is_closed,
     block_finder_hash |-> self.block_finder_hash,
     opened_at |-> self.opened_at]

\* Block.from_dict that passes the fields a header is made of and leaves the
\* others to their defaults
Block_from_dict_header(data, time) ==
    Block(data.index, data.timestamp, data.transactions, data.previous_hash,
          data.nonce, data.share_difficulty, data.block_difficulty, data.hash,
          data.miner, data.merkle_root, FALSE, time)

\* cls(**data): every field is passed to the constructor, and __post_init__
\* fills in a merkle_root that is empty and an opened_at that is zero
Block_from_dict(data, time) ==
    [Block(data.index, data.timestamp, data.transactions, data.previous_hash,
           data.nonce, data.share_difficulty, data.block_difficulty, data.hash,
           data.miner, data.merkle_root, data.is_closed,
           IF data.opened_at = 0 THEN time ELSE data.opened_at)
        EXCEPT !.claimed_shares = data.claimed_shares,
               !.share_claims = data.share_claims,
               !.block_finder_hash = data.block_finder_hash]

\* Blockchain.to_dict; current_open_block is <<>> for None and <<d>> for the
\* dict d
to_dict(bc) ==
    [chain |-> [i \in 1..Len(bc.chain) |-> Block_to_dict(bc.blocks[bc.chain[i]])],
     share_difficulty |-> bc.share_difficulty,
     block_difficulty |-> bc.block_difficulty,
     pending_transactions |-> bc.pending_transactions,
     current_open_block |->
        IF bc.current_open_block # None
        THEN <<Block_to_dict(bc.blocks[bc.current_open_block])>>
        ELSE <<>>]

\* Blockchain.from_dict, called at time: the Block objects of the chain are
\* allocated in order, then the one of current_open_block
from_dict(data, time) ==
    [blocks |->
        [i \in 1..Len(data.chain) |-> Block_from_dict(data.chain[i], time)]
            \o [i \in 1..Len(data.current_open_block) |->
                    Block_from_dict(data.current_open_block[i], time)],
     chain |-> [i \in 1..Len(data.chain) |-> i],
     pending_transactions |-> data.pending_transactions,
     share_difficulty |-> data.share_difficulty,
     block_difficulty |-> data.block_difficulty,
     current_open_block |->
        IF data.current_open_block # <<>> THEN Len(data.chain) + 1 ELSE None]

\* ----------------------------------------------------------------- server
ShareResult(success, message, share_index, is_block_find, bonus_shares) ==
    [success |-> success, message |-> message, share_index |-> share_index,
     is_block_find |-> is_block_find, bonus_shares |-> bonus_shares]

\* _process_share_submission that takes the client's word for the hash
_process_share_submission_trusting(bc0, miner_pubkey, nonce, hash_value, block_index, time) ==
    LET refuse(bc, message) ==
            [bc |-> bc, added |-> FALSE,
             ret |-> ShareResult(FALSE, message, -1, FALSE, 0)]
        found(a, share_index, bonus_shares) ==
            [bc |-> [a.bc EXCEPT !.current_open_block = None],
             added |-> a.ret,
             ret |-> ShareResult(TRUE, "Share accepted - BLOCK FOUND!",
                                 share_index, TRUE, bonus_shares)]
        claim(bc, id, share_index, is_block_find, c) ==
            IF ~c.ret THEN refuse(bc, "Failed to claim share")
            ELSE IF is_block_find
            THEN found(add_block([bc EXCEPT !.blocks[id] =
                                    close_block(c.self, miner_pubkey, nonce,
                                                hash_value)],
                                 id, time),
                       share_index, shares_remaining(c.self) - 1)
            ELSE [bc |-> [bc EXCEPT !.blocks[id] = c.self], added |-> FALSE,
                  ret |-> ShareResult(TRUE, "Share accepted", share_index,
                                      FALSE, 0)]
        next(bc, id, block, share_index) ==
            IF share_index = NoShare
            THEN refuse(bc, "No shares remaining in block")
            ELSE claim(bc, id, share_index,
                       check_difficulty(hash_value, block.block_difficulty),
                       claim_share(block, share_index, miner_pubkey, nonce,
                                   hash_value, time))
        verify(bc, id, block) ==
            IF block_index # block.index
            THEN refuse(bc, "Block index mismatch")
            ELSE IF block.is_closed
            THEN refuse(bc, "Block is already closed")
            ELSE IF ~check_difficulty(hash_value, block.share_difficulty)
            THEN refuse(bc, "Hash does not meet share difficulty")
            ELSE next(bc, id, block, get_next_share_index(block))
        open(g) == verify(g.bc, g.ret, g.bc.blocks[g.ret])
    IN  open(get_or_create_open_block(bc0, time))

\* MiningServerHandler._process_share_submission, run under the server's _lock;
\* added is the result of the add_block it calls (FALSE when it calls none)
_process_share_submission(bc0, miner_pubkey, nonce, hash_value, block_index, time) ==
    LET refuse(bc, message) ==
            [bc |-> bc, added |-> FALSE,
             ret |-> ShareResult(FALSE, message, -1, FALSE, 0)]
        found(a, share_index, bonus_shares) ==
            [bc |-> [a.bc EXCEPT !.current_open_block = None],
             added |-> a.ret,
             ret |-> ShareResult(TRUE, "Share accepted - BLOCK FOUND!",
                                 share_index, TRUE, bonus_shares)]
        claim(bc, id, share_index, is_block_find, c) ==
            IF ~c.ret THEN refuse(bc, "Failed to claim share")
            ELSE IF is_block_find
            THEN found(add_block([bc EXCEPT !.blocks[id] =
                                    close_block(c.self, miner_pubkey, nonce,
                                                hash_value)],
                                 id, time),
                       share_index, shares_remaining(c.self) - 1)
            ELSE [bc |-> [bc EXCEPT !.blocks[id] = c.self], added |-> FALSE,
                  ret |-> ShareResult(TRUE, "Share accepted", share_index,
                                      FALSE, 0)]
        next(bc, id, block, share_index) ==
            IF share_index = NoShare
            THEN refuse(bc, "No shares remaining in block")
            ELSE claim(bc, id, share_index,
                       check_difficulty(hash_value, block.block_difficulty),
                       claim_share(block, share_index, miner_pubkey, nonce,
                                   hash_value, time))
        verify(bc, id, block, computed_hash) ==
            IF block_index # block.index
            THEN refuse(bc, "Block index mismatch")
            ELSE IF block.is_closed
            THEN refuse(bc, "Block is already closed")
            ELSE IF computed_hash # hash_value
            THEN refuse(bc, "Hash verification failed")
            ELSE IF ~check_difficulty(hash_value, block.share_difficulty)
            THEN refuse(bc, "Hash does not meet share difficulty")
            ELSE next(bc, id, block, get_next_share_index(block))
        open(g) ==
            verify(g.bc, g.ret, g.bc.blocks[g.ret],
                   mining_hash(compute_header(g.bc.blocks[g.ret]), nonce,
                               g.bc.blocks[g.ret].previous_hash))
    IN  open(get_or_create_open_block(bc0, time))

\* ------------------------------------------------------------------ miner
\* None as a nonce: the search loop has not returned by nonce MaxNonce
NoNonce == 0 - 1

RECURSIVE search(_, _)
\* the "while True" loop of ShareMiner.mine_share from nonce on: the first
\* nonce whose hash meets the share or the block difficulty
search(block, nonce) ==
    IF nonce > MaxNonce THEN NoNonce
    ELSE LET try(hash_value) ==
                IF check_difficulty(hash_value, block.share_difficulty)
                   \/ check_difficulty(hash_value, block.block_difficulty)
                THEN nonce
                ELSE search(block, nonce + 1)
         IN  try(mining_hash(compute_header(block), nonce, block.previous_hash))

RECURSIVE claim_each(_, _, _, _, _, _)
\* "for bonus_index in unclaimed: block.claim_share(bonus_index, ...)"
claim_each(self, unclaimed, miner, nonce, hash_value, time) ==
    IF unclaimed = <<>> THEN self
    ELSE claim_each(claim_share(self, Head(unclaimed), miner, nonce,
                                hash_value, time).self,
                    Tail(unclaimed), miner, nonce, hash_value, time)

\* Coin.mint takes owner_pubkey, value, block_height, mining_proof and
\* coin_dir; the miner also passes share_index, block_hash and
\* is_block_finder, so its calls of Coin.mint raise TypeError
Coin_mint_takes_share_index == FALSE

\* ShareMiner._handle_block_find on the Block object id; raised = TRUE when
\* the call ends in the exception of Coin.mint, after the first bonus claim
_handle_block_find(bc, id, public_key, nonce, hash_value, time) ==
    LET added(a, unclaimed) ==
            [bc |-> [a.bc EXCEPT !.current_open_block = None],
             added |-> a.ret, ret |-> Len(unclaimed), raised |-> FALSE]
        bonus(unclaimed) ==
            IF unclaimed # <<>> /\ ~Coin_mint_takes_share_index
            THEN [bc |-> [bc EXCEPT !.blocks[id] =
                            claim_share(@, Head(unclaimed), public_key, nonce,
                                        hash_value, time).self],
                  added |-> FALSE, ret |-> 0, raised |-> TRUE]
            ELSE added(add_block([bc EXCEPT !.blocks[id] =
                                close_block(claim_each(@, unclaimed, public_key,
                                                       nonce, hash_value, time),
                                            public_key, nonce, hash_value)],
                            id, time),
                  unclaimed)
    IN  bonus(get_unclaimed_shares(bc.blocks[id]))

\* mine_share that mines share 0 of the open block again when the block is
\* fully claimed
mine_share_same_block(bc0, public_key, time) ==
    LET result(bc, called, added, raised, c, id, share_index, nonce, hash_value, is_block_find) ==
            [bc |-> bc, called |-> called, added |-> added, raised |-> raised,
             claimed |-> c.ret, id |-> id,
             ret |-> [success |-> ~raised, share_index |-> share_index,
                      nonce |-> nonce, hash_value |-> hash_value,
                      is_block_find |-> is_block_find]]
        find(h, c, id, share_index, nonce, hash_value) ==
            result(h.bc, ~h.raised, h.added, h.raised, c, id, share_index,
                   nonce, hash_value, TRUE)
        claim(bc, id, share_index, nonce, hash_value, is_block_find, c) ==
            IF ~Coin_mint_takes_share_index
            THEN result([bc EXCEPT !.blocks[id] = c.self], FALSE, FALSE, TRUE,
                        c, id, share_index, nonce, hash_value, is_block_find)
            ELSE IF is_block_find
            THEN find(_handle_block_find([bc EXCEPT !.blocks[id] = c.self], id,
                                         public_key, nonce, hash_value, time),
                      c, id, share_index, nonce, hash_value)
            ELSE result([bc EXCEPT !.blocks[id] = c.self], FALSE, FALSE, FALSE,
                        c, id, share_index, nonce, hash_value, FALSE)
        hashed(bc, id, block, share_index, nonce, hash_value) ==
            claim(bc, id, share_index, nonce, hash_value,
                  check_difficulty(hash_value, block.block_difficulty),
                  claim_share(block, share_index, public_key, nonce, hash_value,
                              time))
        found(bc, id, block, share_index, nonce) ==
            hashed(bc, id, block, share_index, nonce,
                   mining_hash(compute_header(block), nonce, block.previous_hash))
        mine(bc, id, share_index) ==
            found(bc, id, bc.blocks[id], share_index,
                  search(bc.blocks[id], bc.blocks[id].nonce))
        open(g, share_index) ==
            IF share_index = NoShare
            THEN mine(g.bc, g.ret, 0)
            ELSE mine(g.bc, g.ret, share_index)
        start(g) == open(g, get_next_share_index(g.bc.blocks[g.ret]))
    IN  start(get_or_create_open_block(bc0, time))

\* ShareMiner.mine_share run by one thread without interruption; claimed is
\* the result of its claim_share, which the code discards; called is whether
\* add_block was reached, raised whether the call ended in the exception of
\* Coin.mint, and ret then holds the local variables and no success
mine_share(bc0, public_key, time) ==
    LET result(bc, called, added, raised, c, id, share_index, nonce, hash_value, is_block_find) ==
            [bc |-> bc, called |-> called, added |-> added, raised |-> raised,
             claimed |-> c.ret, id |-> id,
             ret |-> [success |-> ~raised, share_index |-> share_index,
                      nonce |-> nonce, hash_value |-> hash_value,
                      is_block_find |-> is_block_find]]
        find(h, c, id, share_index, nonce, hash_value) ==
            result(h.bc, ~h.raised, h.added, h.raised, c, id, share_index,
                   nonce, hash_value, TRUE)
        claim(bc, id, share_index, nonce, hash_value, is_block_find, c) ==
            IF ~Coin_mint_takes_share_index
            THEN result([bc EXCEPT !.blocks[id] = c.self], FALSE, FALSE, TRUE,
                        c, id, share_index, nonce, hash_value, is_block_find)
            ELSE IF is_block_find
            THEN find(_handle_block_find([bc EXCEPT !.blocks[id] = c.self], id,
                                         public_key, nonce, hash_value, time),
                      c, id, share_index, nonce, hash_value)
            ELSE result([bc EXCEPT !.blocks[id] = c.self], FALSE, FALSE, FALSE,
                        c, id, share_index, nonce, hash_value, FALSE)
        hashed(bc, id, block, share_index, nonce, hash_value) ==
            claim(bc, id, share_index, nonce, hash_value,
                  check_difficulty(hash_value, block.block_difficulty),
                  claim_share(block, share_index, public_key, nonce, hash_value,
                              time))
        found(bc, id, block, share_index, nonce) ==
            hashed(bc, id, block, share_index, nonce,
                   mining_hash(compute_header(block), nonce, block.previous_hash))
        mine(bc, id, share_index) ==
            found(bc, id, bc.blocks[id], share_index,
                  search(bc.blocks[id], bc.blocks[id].nonce))
        fresh(c) == mine([c.bc EXCEPT !.current_open_block = c.ret], c.ret, 0)
        open(g, share_index) ==
            IF share_index = NoShare
            THEN fresh(create_block(g.bc, "", time))
            ELSE mine(g.bc, g.ret, share_index)
        start(g) == open(g, get_next_share_index(g.bc.blocks[g.ret]))
    IN  start(get_or_create_open_block(bc0, time))

\* --------------------------------------------- MultiThreadedShareMiner
\* MultiThreadedShareMiner.__init__, and the main thread outside mine_share.
\* found_result is <<>> for None and <<r>> for the ShareResult r;
\* block and share_index are the local variables of mine_share, pc its
\* position, call the number of mine_share calls begun; workers holds the
\* local variables of every _mine_thread started.  writes counts the
\* assignments to _found_result since mine_share last reset it, and
\* written_by is the call that started the thread which assigned it;
\* cancelled records that stop() was called while the threads of the current
\* call were searching and none had found a hash
MultiThreadedShareMiner ==
    [stop_event |-> FALSE,
     found_result |-> <<>>,
     pc |-> "idle",
     call |-> 0,
     block |-> None,
     share_index |-> NoShare,
     workers |-> <<>>,
     writes |-> 0,
     written_by |-> 0,
     cancelled |-> FALSE]

\* ------------------------------------------------------------------- node
\* the addresses peers connect from
PeerAddresses == {"peer1", "peer2"}

\* Node.__init__.  server_socket is "none", or the state of the socket it
\* refers to: "unbound", "listening" or "closed".  peers is the set of keys
\* of the dict and peer_height the height of each Peer entry; tx_pool is the
\* set of txids in tx_pool.pending.  Three fields are not attributes: holds_port
\* tells whether a socket of this node is bound to the port, relayed_blocks
\* and relayed_txs hold the blocks (header and nonce, what the block hash
\* digests) and the txids the node has broadcast on receipt, and twice tells
\* whether it has broadcast one of them again
Node ==
    [is_running |-> FALSE,
     server_socket |-> "none",
     _threads |-> <<>>,
     peers |-> {},
     peer_height |-> [address \in PeerAddresses |-> 0],
     tx_pool |-> {},
     holds_port |-> FALSE,
     relayed_blocks |-> {},
     relayed_txs |-> {},
     twice |-> FALSE]

\* TransactionPool.add without the test for a txid already in the pool
TransactionPool_add_again(pending, tx) ==
    IF ~tx.valid THEN [pending |-> pending, ret |-> FALSE]
    ELSE [pending |-> pending \cup {tx.txid}, ret |-> TRUE]

\* TransactionPool.add; tx.valid is the result of tx.is_valid()
TransactionPool_add(pending, tx) ==
    IF tx.txid \in pending THEN [pending |-> pending, ret |-> FALSE]
    ELSE IF ~tx.valid THEN [pending |-> pending, ret |-> FALSE]
    ELSE [pending |-> pending \cup {tx.txid}, ret |-> TRUE]

\* Node.start; port_free tells whether bind finds the port free, raised
\* whether the call ends in the OSError of bind
Node_start(self, port_free) ==
    LET created == [self EXCEPT !.is_running = TRUE,
                                !.server_socket = "unbound"]
    IN  IF ~port_free
        THEN [node |-> created, raised |-> TRUE]
        ELSE [node |-> [created EXCEPT
                            !.server_socket = "listening",
                            !.holds_port = TRUE,
                            !._threads = @ \o <<"accept", "maintenance">>],
              raised |-> FALSE]

\* Node.stop
Node_stop(self) ==
    IF self.server_socket = "none"
    THEN [self EXCEPT !.is_running = FALSE]
    ELSE [self EXCEPT !.is_running = FALSE,
                      !.server_socket = "closed",
                      !.holds_port =
                            @ /\ self.server_socket # "listening"]

RECURSIVE sync_blockchain(_, _, _, _, _)
\* Node.sync_blockchain of the node self on the Blockchain bc: peers lists
\* the entries of self.peers in the order of the dict, and held[peer] is the
\* chain the peer answers GET_BLOCKS from, with blockchain.chain[start:start
\* + 100] as dicts; each block of the answer goes through Block.from_dict
\* and add_block
sync_blockchain(bc, self, peers, held, time) ==
    LET RECURSIVE add_each(_, _)
        added(g, a, response) ==
            add_each(IF a.ret THEN a.bc ELSE g, Tail(response))
        add_each(g, response) ==
            IF response = <<>> THEN g
            ELSE added(g,
                       add_block(alloc(g, Block_from_dict(Head(response), time)),
                                 NextId(g), time),
                       response)
        blocks_from(theirs, start) ==
            [i \in 1..(Min(Len(theirs), start + 100) - start) |->
                Block_to_dict(theirs[start + i])]
    IN  IF peers = <<>> THEN bc
        ELSE IF self.peer_height[Head(peers)] > height(bc)
        THEN sync_blockchain(add_each(bc, blocks_from(held[Head(peers)],
                                                      height(bc))),
                             self, Tail(peers), held, time)
        ELSE sync_blockchain(bc, self, Tail(peers), held, time)

\* ---------------------------------------------------------- state machine
VARIABLES
    blocks,                 \* heap of Block objects
    chain,                  \* Blockchain.chain
    pending_transactions,   \* Blockchain.pending_transactions
    share_difficulty,       \* Blockchain.share_difficulty
    block_difficulty,       \* Blockchain.block_difficulty
    current_open_block,     \* Blockchain.current_open_block
    now,                    \* time.time()
    threads,                \* the local variables of each miner thread
    node,                   \* the Node object and the port it listens on
    share_miner,            \* the MultiThreadedShareMiner object and its workers
    last                    \* the last call: operation, arguments, result

vars == <<blocks, chain, pending_transactions, share_difficulty,
          block_difficulty, current_open_block, now, threads, node,
          share_miner, last>>

\* the Blockchain object of the current state
Self ==
    [blocks |-> blocks,
     chain |-> chain,
     pending_transactions |-> pending_transactions,
     share_difficulty |-> share_difficulty,
     block_difficulty |-> block_difficulty,
     current_open_block |-> current_open_block]

\* the Blockchain object becomes bc
Becomes(bc) ==
    /\ blocks' = bc.blocks
    /\ chain' = bc.chain
    /\ pending_transactions' = bc.pending_transactions
    /\ share_difficulty' = bc.share_difficulty
    /\ block_difficulty' = bc.block_difficulty
    /\ current_open_block' = bc.current_open_block

\* a heap slot whose Block object no reference reaches any more
Freed == [freed |-> TRUE]

IsBlock(b) == "freed" \notin DOMAIN b

\* Python frees the Block objects that neither chain, current_open_block nor
\* a local variable in roots refers to
Sweep(bc, roots) ==
    [bc EXCEPT !.blocks =
        [i \in 1..Len(bc.blocks) |->
            IF i \in Range(bc.chain) \/ i = bc.current_open_block \/ i \in roots
            THEN bc.blocks[i] ELSE Freed]]

\* the Blockchain object becomes bc when the call returns
Returns(bc) == Becomes(Sweep(bc, {}))

\* the clock advances in steps of TickStep
TickStep == 5 * BLOCK_TIME_TARGET

\* the time at which the Blockchain object is constructed
StartTime == GENESIS_TIMESTAMP + TickStep

\* what a caller of add_block(block) can see is wrong with block against the
\* tip, stated without validate_block
Defects(tip, block, time) ==
    {d \in {"index", "prev", "pow", "time"} :
        \/ d = "index" /\ block.index # tip.index + 1
        \/ d = "prev" /\ block.previous_hash # tip.hash
        \/ d = "pow" /\ (\/ compute_hash(block) # block.hash
                         \/ ~check_difficulty(block.hash,
                                IF block.is_closed THEN block.block_difficulty
                                ELSE block.share_difficulty))
        \/ d = "time" /\ block.timestamp > time + FUTURE_TOLERANCE}

\* the record of a call that did not call add_block
Call(op, ret, blk, arg) ==
    [op |-> op, ret |-> ret, blk |-> blk, arg |-> arg,
     called |-> FALSE, added |-> FALSE, bad |-> {}, removed |-> 0]

\* the record of a call that called add_block(block) and left the Blockchain bc
CallAdd(op, ret, blk, arg, added, block, bc) ==
    [op |-> op, ret |-> ret, blk |-> blk, arg |-> arg,
     called |-> TRUE, added |-> added,
     bad |-> Defects(last_block(Self), block, now),
     removed |-> Len(pending_transactions) - Len(bc.pending_transactions)]

\* the miner threads, each named by the public key of its wallet
Threads == {"alice", "bob"}

\* a thread that has not called mine_share yet.  stop_event is the flag of
\* its ShareMiner; cancelled records that stop() was called while the search
\* loop was running, and after_stop counts the hash iterations begun since
NotStarted ==
    [pc |-> "start", block |-> None, share_index |-> NoShare,
     nonce |-> NoNonce, hash_value |-> ZeroHash, is_block_find |-> FALSE,
     ret |-> FALSE, stop_event |-> FALSE, cancelled |-> FALSE,
     after_stop |-> 0]

Init ==
    /\ threads = [t \in Threads |-> NotStarted]
    /\ node = Node
    /\ share_miner = MultiThreadedShareMiner
    /\ blocks = Blockchain(StartTime).blocks
    /\ chain = Blockchain(StartTime).chain
    /\ pending_transactions = Blockchain(StartTime).pending_transactions
    /\ share_difficulty = Blockchain(StartTime).share_difficulty
    /\ block_difficulty = Blockchain(StartTime).block_difficulty
    /\ current_open_block = Blockchain(StartTime).current_open_block
    /\ now = StartTime
    /\ last = Call("init", TRUE, None, 0)

\* time passes
Tick ==
    /\ now < GENESIS_TIMESTAMP + (1 + MaxTicks) * TickStep
    /\ now' = now + TickStep
    /\ last' = Call("tick", TRUE, None, 0)
    /\ UNCHANGED <<blocks, chain, pending_transactions, share_difficulty,
                   block_difficulty, current_open_block, threads, node, share_miner>>

\* transactions offered to the pool; EmptyStr is a missing txid
PoolTx(i) == [txid |-> i, type |-> "transfer", fee |-> i, amount |-> 0]

AddTransaction ==
    \E i \in {EmptyStr} \cup (1..MaxTx) :
        LET returns(r) ==
                /\ Returns(r.bc)
                /\ last' = Call("add_transaction", r.ret, None, i)
        IN  /\ returns(add_transaction(Self, PoolTx(i)))
            /\ UNCHANGED <<now, threads, node, share_miner>>

\* get_or_create_open_block will allocate a Block
NeedsBlock ==
    current_open_block = None \/ blocks[current_open_block].is_closed

\* Blockchain.get_or_create_open_block, also the server's /block/current;
\* arg is 1 when current_open_block referred to a closed block
GetOrCreateOpenBlock ==
    /\ NeedsBlock => NextId(Self) <= MaxBlocks
    /\ LET returns(r) ==
            /\ Returns(r.bc)
            /\ last' = Call("get_or_create_open_block", r.ret, r.ret,
                            IF current_open_block # None
                               /\ blocks[current_open_block].is_closed
                            THEN 1 ELSE 0)
       IN  returns(get_or_create_open_block(Self, now))
    /\ UNCHANGED <<now, threads, node, share_miner>>

\* Block.claim_share called on the block current_open_block refers to
ClaimShare ==
    /\ current_open_block # None
    /\ \E share_index \in (0 - 1)..SHARES_PER_BLOCK, nonce \in {0} :
        LET id == current_open_block
            block == blocks[id]
            returns(r) ==
                /\ blocks' = [blocks EXCEPT ![id] = r.self]
                /\ last' = Call("claim_share", r.ret, id, share_index)
        IN  returns(claim_share(block, share_index, "alice", nonce,
                                mining_hash(compute_header(block), nonce,
                                            block.previous_hash),
                                now))
    /\ UNCHANGED <<chain, pending_transactions, share_difficulty,
                   block_difficulty, current_open_block, now, threads, node, share_miner>>

\* the (nonce, hash) pairs a caller closes a block with on behalf of miner:
\* the proof of the header that names miner, or a hash that is no proof
Closings(block, miner) ==
    {[nonce |-> n,
      hash |-> mining_hash(compute_header([block EXCEPT !.miner = miner]),
                           n, block.previous_hash)] : n \in Nonces}
    \cup {[nonce |-> 0, hash |-> ZeroHash]}

\* Block.close_block called on the block current_open_block refers to
CloseBlock ==
    /\ current_open_block # None
    /\ \E miner \in {"alice"} :
       \E c \in Closings(blocks[current_open_block], miner) :
        /\ blocks' = [blocks EXCEPT ![current_open_block] =
                        close_block(@, miner, c.nonce, c.hash)]
        /\ last' = Call("close_block", TRUE, current_open_block,
                         IF blocks[current_open_block].is_closed THEN 1 ELSE 0)
        /\ UNCHANGED <<chain, pending_transactions, share_difficulty,
                       block_difficulty, current_open_block, now, threads, node, share_miner>>

CloseCurrentBlock ==
    /\ current_open_block = None => NextId(Self) <= MaxBlocks
    /\ \E miner \in {"", "alice"} :
       LET fresh(c) == c.bc.blocks[c.ret]
           returns(r) ==
                /\ Returns(r.bc)
                /\ last' = CallAdd("close_current_block", r.ret, r.ret, 0,
                                   r.added, r.bc.blocks[r.ret], r.bc)
           close(open) ==
                \E c \in Closings(open, miner) :
                    returns(close_current_block(Self, miner, c.nonce, c.hash, now))
       IN  close(IF current_open_block = None
                 THEN fresh(create_block(Self, "", now))
                 ELSE blocks[current_open_block])
    /\ UNCHANGED <<now, threads, node, share_miner>>

\* the blocks a peer announces: the next block of this chain, closed or still
\* open, holding one of the transaction lists, with the hash of one of the
\* nonces, or that block with one thing wrong
PeerBlocksOf(lists, nonces) ==
    LET tip == last_block(Self)
        hashed(b, wrong) ==
            [b EXCEPT !.hash = IF wrong = "hash" THEN ZeroHash
                               ELSE compute_hash(b)]
    IN  {hashed(Block(IF wrong = "index" THEN tip.index + 2 ELSE tip.index + 1,
                      IF wrong = "time" THEN now + FUTURE_TOLERANCE + 1 ELSE now,
                      transactions,
                      IF wrong = "prev" THEN ZeroHash ELSE tip.hash,
                      nonce, share_difficulty, block_difficulty, EmptyStr,
                      "bob", EmptyStr, is_closed, now),
                wrong) :
            wrong \in {"nothing", "index", "time", "prev", "hash"},
            transactions \in lists,
            nonce \in nonces,
            is_closed \in BOOLEAN}

PeerBlocks == PeerBlocksOf({<<>>} \cup {<<PoolTx(i)>> : i \in 1..MaxTx}, Nonces)

\* Node._handle_message, NEW_BLOCK: Block.from_dict, then add_block
NewBlock ==
    /\ NextId(Self) <= MaxBlocks
    /\ \E block \in PeerBlocks :
        LET id == NextId(Self)
            returns(r) ==
                /\ Returns(IF r.ret THEN r.bc ELSE Self)
                /\ last' = CallAdd("add_block", r.ret,
                                   IF r.ret THEN id ELSE None, 0, r.ret, block,
                                   IF r.ret THEN r.bc ELSE Self)
        IN  returns(add_block(alloc(Self, block), id, now))
    /\ UNCHANGED <<now, threads, node, share_miner>>

\* block with a transaction added to its list and its merkle_root left as
\* it was
Tampered(block) == [block EXCEPT !.transactions = Append(@, PoolTx(MaxTx))]

\* the chains offered to replace_chain: a prefix of the local chain, the
\* local chain extended by a peer block that was mined from nonce 0 on, or
\* that with the new block tampered
Candidates ==
    LET local == [i \in 1..Len(chain) |-> blocks[chain[i]]]
        next == {b \in PeerBlocksOf({<<>>}, Nonces) : b.nonce = search(b, 0)}
    IN  {SubSeq(local, 1, k) : k \in 1..Len(local)}
        \cup {Append(local, block) : block \in next}
        \cup {Append(local, Tampered(block)) :
                    block \in {b \in next : b.previous_hash = last_block(Self).hash}}

\* the transaction list of block is not the one its merkle_root was
\* computed from
IsTampered(block) ==
    block.merkle_root #
        (IF block.transactions = <<>> THEN EmptyStr
         ELSE merkle_root([i \in 1..Len(block.transactions) |->
                                block.transactions[i].txid]).ret)

\* what a caller of replace_chain(new_chain) can see of new_chain and of the
\* call: "longer" than the local chain, "invalid" when some block does not fit
\* on the block before it, "tampered" when some block is; "raised" marks a
\* call that ended in an exception
ChainTags(new_chain, raised) ==
    {d \in {"longer", "invalid", "tampered", "raised"} :
        \/ d = "longer" /\ Len(new_chain) > Len(chain)
        \/ d = "invalid" /\ \E i \in 2..Len(new_chain) :
                Defects(new_chain[i - 1], new_chain[i], now) # {}
        \/ d = "tampered" /\ \E i \in 1..Len(new_chain) : IsTampered(new_chain[i])
        \/ d = "raised" /\ raised}

\* the record of a call of replace_chain(new_chain)
CallReplace(r, new_chain) ==
    [op |-> "replace_chain", ret |-> r.ret, blk |-> None,
     arg |-> Len(new_chain), called |-> FALSE, added |-> FALSE,
     bad |-> ChainTags(new_chain, r.raised), removed |-> 0]

ReplaceChain ==
    /\ \E new_chain \in Candidates :
        LET returns(r) ==
                /\ Len(r.bc.blocks) <= MaxBlocks
                /\ Returns(r.bc)
                /\ last' = CallReplace(r, new_chain)
        IN  returns(replace_chain(Self, new_chain, now))
    /\ UNCHANGED <<now, threads, node, share_miner>>

\* ShareMiner.mine_share by the wallet of bob.  arg holds the share mined,
\* what current_open_block referred to before the call, whether that block
\* was fully claimed and not closed, and the result of claim_share
MineShare ==
    /\ (\/ NeedsBlock
        \/ get_next_share_index(blocks[current_open_block]) = NoShare)
            => NextId(Self) <= MaxBlocks
    /\ LET called(r) ==
            [share_index |-> r.ret.share_index,
             open |-> current_open_block,
             full |-> /\ ~NeedsBlock
                      /\ get_next_share_index(blocks[current_open_block])
                            = NoShare,
             claimed |-> r.claimed]
           returns(r) ==
            /\ r.ret.nonce # NoNonce
            /\ Returns(r.bc)
            /\ last' = IF r.called
                       THEN CallAdd("mine_share", r.ret, r.id, called(r),
                                    r.added, r.bc.blocks[r.id], r.bc)
                       ELSE [Call("mine_share", r.ret, r.id, called(r))
                                EXCEPT !.bad = IF r.raised THEN {"raised"} ELSE {}]
       IN  returns(mine_share(Self, "bob", now))
    /\ UNCHANGED <<now, threads, node, share_miner>>

\* POST /share/submit: the client sends the hash it computed for the nonce
\* on the server's block, or a hash that is no proof
SubmitShare ==
    /\ NeedsBlock => NextId(Self) <= MaxBlocks
    /\ \E miner_pubkey \in {"", "alice"}, nonce \in Nonces, proof \in BOOLEAN,
          block_index \in {height(Self) + 1, height(Self) + 2} :
        LET returns(id, hash_value, r) ==
                /\ Returns(r.bc)
                /\ last' = IF r.ret.success /\ r.ret.is_block_find
                           THEN CallAdd("submit_share", r.ret, id,
                                        [nonce |-> nonce, hash |-> hash_value],
                                        r.added, r.bc.blocks[id], r.bc)
                           ELSE Call("submit_share", r.ret, id,
                                     [nonce |-> nonce, hash |-> hash_value])
            send(id, hash_value) ==
                returns(id, hash_value,
                        _process_share_submission(Self, miner_pubkey, nonce,
                                                  hash_value, block_index, now))
            submit(id, block) ==
                send(id, IF proof
                         THEN mining_hash(compute_header(block), nonce,
                                          block.previous_hash)
                         ELSE ZeroHash)
            template(g) == submit(g.ret, g.bc.blocks[g.ret])
        IN  template(get_or_create_open_block(Self, now))
    /\ UNCHANGED <<now, threads, node, share_miner>>

\* Blockchain(): another instance is constructed, as Node.__init__ does when
\* it is given none; ret is the genesis block of the new instance
NewBlockchain ==
    /\ last' = Call("Blockchain", Blockchain(now).blocks[Blockchain(now).chain[1]],
                     None, 0)
    /\ UNCHANGED <<blocks, chain, pending_transactions, share_difficulty,
                   block_difficulty, current_open_block, now, threads, node, share_miner>>

\* the attributes in which the Blockchain loaded differs from the Blockchain
\* self, blocks compared field by field
Differences(loaded, self) ==
    LET blocks_of(bc) == [i \in 1..Len(bc.chain) |-> bc.blocks[bc.chain[i]]]
        open_of(bc) == IF bc.current_open_block = None THEN <<>>
                       ELSE <<bc.blocks[bc.current_open_block]>>
    IN  {d \in {"chain", "share_difficulty", "block_difficulty",
                "pending_transactions", "current_open_block"} :
            \/ d = "chain" /\ blocks_of(loaded) # blocks_of(self)
            \/ d = "share_difficulty"
                    /\ loaded.share_difficulty # self.share_difficulty
            \/ d = "block_difficulty"
                    /\ loaded.block_difficulty # self.block_difficulty
            \/ d = "pending_transactions"
                    /\ loaded.pending_transactions # self.pending_transactions
            \/ d = "current_open_block" /\ open_of(loaded) # open_of(self)}

\* Blockchain.from_dict(self.to_dict()), as save and load do through a file;
\* bad holds the attributes the loaded Blockchain differs in
FromDict ==
    /\ last' = [Call("from_dict", TRUE, None, 0) EXCEPT
                    !.bad = Differences(from_dict(to_dict(Self), now), Self)]
    /\ UNCHANGED <<blocks, chain, pending_transactions, share_difficulty,
                   block_difficulty, current_open_block, now, threads, node, share_miner>>

\* Node.start; the port is in use when another process holds it or when a
\* socket of this node does.  arg tells whether the node was running and
\* how many threads it had started before the call
NodeStart ==
    /\ Len(node._threads) < 2 * MaxStarts
    /\ \E port_free \in BOOLEAN :
        /\ node.holds_port => ~port_free
        /\ LET returns(r) ==
                /\ node' = r.node
                /\ last' = [Call("start", ~r.raised, None,
                                 [is_running |-> node.is_running,
                                  started |-> Len(node._threads)])
                                EXCEPT !.bad = IF r.raised THEN {"raised"}
                                               ELSE {}]
           IN  returns(Node_start(node, port_free))
    /\ UNCHANGED <<blocks, chain, pending_transactions, share_difficulty,
                   block_difficulty, current_open_block, now, threads, share_miner>>

\* Node.stop
NodeStop ==
    /\ node' = Node_stop(node)
    /\ last' = Call("stop", TRUE, None, 0)
    /\ UNCHANGED <<blocks, chain, pending_transactions, share_difficulty,
                   block_difficulty, current_open_block, now, threads, share_miner>>

\* _accept_connections has a connection to hand to _handle_client, whose
\* loop runs while is_running
Serving == node.is_running /\ node.server_socket = "listening"

\* Node._handle_message, HELLO
HandleHello ==
    /\ Serving
    /\ \E address \in PeerAddresses, peer_height \in 1..(MaxChain - 1) :
        /\ node' = [node EXCEPT !.peers = @ \cup {address},
                                !.peer_height[address] = peer_height]
        /\ last' = Call("hello", TRUE, None, 0)
    /\ UNCHANGED <<blocks, chain, pending_transactions, share_difficulty,
                   block_difficulty, current_open_block, now, threads, share_miner>>

\* Node._handle_message, NEW_BLOCK, of a node whose on_block_received is
\* CoinControlServer._on_block_received: Block.from_dict, add_block, and
\* when it accepts, broadcast_block, which sends to every entry of peers.
\* The block is a new one or a block of the local chain announced once more.
\* arg holds the peer the message came from, what the hash of the block is
\* the digest of (its header and nonce) and the peers it was sent to
HandleNewBlock ==
    /\ Serving
    /\ NextId(Self) <= MaxBlocks
    /\ \E address \in PeerAddresses,
          block \in PeerBlocksOf({<<>>}, Nonces)
                        \cup {blocks[chain[i]] : i \in 2..Len(chain)} :
        LET id == NextId(Self)
            hashed == <<compute_header(block), block.nonce>>
            returns(r) ==
                /\ Returns(IF r.ret THEN r.bc ELSE Self)
                /\ node' = IF ~r.ret THEN node
                           ELSE [node EXCEPT
                                    !.relayed_blocks = @ \cup {hashed},
                                    !.twice = @ \/ hashed \in node.relayed_blocks]
                /\ last' = Call("new_block", r.ret,
                                IF r.ret THEN id ELSE None,
                                [sender |-> address,
                                 item |-> hashed,
                                 sent |-> IF r.ret THEN node.peers ELSE {}])
        IN  returns(add_block(alloc(Self, Block_from_dict(Block_to_dict(block),
                                                          now)),
                              id, now))
    /\ UNCHANGED <<now, threads, share_miner>>

\* Node._handle_message, NEW_TX, of a node whose on_tx_received is
\* CoinControlServer._on_tx_received: tx_pool.add, and when it accepts,
\* broadcast_transaction, which sends to every entry of peers.  arg holds
\* the peer the message came from, the txid and the peers it was sent to
HandleNewTx ==
    /\ Serving
    /\ \E address \in PeerAddresses, txid \in 1..MaxTx, valid \in BOOLEAN :
        LET returns(r) ==
                /\ node' = IF ~r.ret THEN [node EXCEPT !.tx_pool = r.pending]
                           ELSE [node EXCEPT
                                    !.tx_pool = r.pending,
                                    !.relayed_txs = @ \cup {txid},
                                    !.twice = @ \/ txid \in node.relayed_txs]
                /\ last' = Call("new_tx", r.ret, None,
                                [sender |-> address,
                                 item |-> txid,
                                 sent |-> IF r.ret THEN node.peers ELSE {}])
        IN  returns(TransactionPool_add(node.tx_pool,
                                        [txid |-> txid, valid |-> valid]))
    /\ UNCHANGED <<blocks, chain, pending_transactions, share_difficulty,
                   block_difficulty, current_open_block, now, threads,
                   share_miner>>

\* the chains a peer may hold, each fully valid: the genesis block followed
\* by blocks alice has mined, closed and linked, or the local chain followed
\* by one such block
PeerChains ==
    LET local == [i \in 1..Len(chain) |-> blocks[chain[i]]]
        hashed(b) == [b EXCEPT !.hash = compute_hash(b)]
        At(prev, nonce) ==
            hashed(Block(prev.index + 1, now, <<>>, prev.hash, nonce,
                         share_difficulty, block_difficulty, EmptyStr,
                         "alice", EmptyStr, TRUE, now))
        Mined(prev) ==
            At(prev, CHOOSE nonce \in Nonces : is_valid(At(prev, nonce)))
        Grown(theirs) == Append(theirs, Mined(theirs[Len(theirs)]))
    IN  {<<local[1]>>, Grown(<<local[1]>>), Grown(Grown(<<local[1]>>)),
         Grown(local)}

\* _maintenance_loop: sync_blockchain with the peers in some order, each
\* holding some chain.  arg holds the length of the local chain before, and
\* the tip hashes of the longest chains held by peers whose chain is longer
\* than the local chain and has the height their Peer entry records
SyncBlockchain ==
    /\ node.is_running
    /\ node.peers # {}
    /\ \E held \in [node.peers -> PeerChains] :
       \E peers \in {o \in [1..Cardinality(node.peers) -> node.peers] :
                        Range(o) = node.peers} :
        LET ahead == {a \in node.peers :
                        /\ node.peer_height[a] = Len(held[a]) - 1
                        /\ Len(held[a]) > Len(chain)}
            longest == {a \in ahead :
                            \A b \in ahead : Len(held[b]) <= Len(held[a])}
            returns(bc) ==
                /\ Len(bc.blocks) <= MaxBlocks
                /\ Returns(bc)
                /\ last' = Call("sync_blockchain", TRUE, None,
                                [before |-> Len(chain),
                                 tips |-> {held[a][Len(held[a])].hash :
                                                a \in longest}])
        IN  returns(sync_blockchain(Self, node, peers, held, now))
    /\ UNCHANGED <<now, threads, node, share_miner>>

\* the node: started, stopped and spoken to by peers
NextNode ==
    \/ SyncBlockchain
    \/ NodeStart
    \/ NodeStop
    \/ HandleHello
    \/ HandleNewBlock
    \/ HandleNewTx

SpecNode == Init /\ [][NextNode]_vars

\* MultiThreadedShareMiner.mine_share begins: the flag is cleared and
\* _found_result reset
MinerCall ==
    /\ share_miner.pc = "idle"
    /\ share_miner.call < MaxCalls
    /\ share_miner' = [share_miner EXCEPT !.stop_event = FALSE,
                              !.found_result = <<>>,
                              !.writes = 0,
                              !.written_by = 0,
                              !.cancelled = FALSE,
                              !.call = @ + 1,
                              !.pc = "open"]
    /\ UNCHANGED <<blocks, chain, pending_transactions, share_difficulty,
                   block_difficulty, current_open_block, now, threads, node,
                   last>>

\* mine_share: the open block and the share to mine
MinerOpen ==
    /\ share_miner.pc = "open"
    /\ (\/ NeedsBlock
        \/ get_next_share_index(blocks[current_open_block]) = NoShare)
            => NextId(Self) <= MaxBlocks
    /\ LET Mined(m) == {m.workers[w].block : w \in 1..Len(m.workers)}
           holds(bc, m) ==
            /\ share_miner' = m
            /\ Becomes(Sweep(bc, ({m.block} \cup Mined(m)) \ {None}))
           mine(bc, id, share_index) ==
            holds(bc, [share_miner EXCEPT !.pc = "threads",
                                    !.block = id,
                                    !.share_index = share_index])
           fresh(c) == mine([c.bc EXCEPT !.current_open_block = c.ret], c.ret, 0)
           open(g, share_index) ==
            IF share_index = NoShare
            THEN fresh(create_block(g.bc, "", now))
            ELSE mine(g.bc, g.ret, share_index)
           opened(g) == open(g, get_next_share_index(g.bc.blocks[g.ret]))
       IN  opened(get_or_create_open_block(Self, now))
    /\ UNCHANGED <<now, threads, node, last>>

\* mine_share: the threads are started, thread i from nonce i; each entry of
\* workers holds the local variables of one _mine_thread
MinerStartThreads ==
    /\ share_miner.pc = "threads"
    /\ LET Thread(start_nonce) ==
            [call |-> share_miner.call, pc |-> "start",
             block |-> share_miner.block,
             share_index |-> share_miner.share_index,
             start_nonce |-> start_nonce, header |-> <<>>,
             nonce |-> NoNonce, hash_value |-> ZeroHash,
             is_block_find |-> FALSE]
       IN  share_miner' = [share_miner EXCEPT
                !.pc = "monitor",
                !.workers = @ \o [i \in 1..NumThreads |-> Thread(i - 1)]]
    /\ UNCHANGED <<blocks, chain, pending_transactions, share_difficulty,
                   block_difficulty, current_open_block, now, threads, node,
                   last>>

\* mine_share: the monitor loop ends when the flag is set, and each
\* t.join(timeout=1.0) returns when its thread has ended or a second has
\* passed
MinerWait ==
    /\ share_miner.pc = "monitor"
    /\ share_miner.stop_event
    /\ share_miner' = [share_miner EXCEPT !.pc = "result"]
    /\ UNCHANGED <<blocks, chain, pending_transactions, share_difficulty,
                   block_difficulty, current_open_block, now, threads, node,
                   last>>

\* mine_share: the share of _found_result is claimed on block, Coin.mint is
\* called and, were a coin minted, a block find would be handled.  ret is the
\* result of claim_share, arg the share the call set out to mine and the
\* share of _found_result
MinerFinish ==
    /\ share_miner.pc = "result"
    /\ LET id == share_miner.block
           Mined(m) == {m.workers[w].block : w \in 1..Len(m.workers)}
           ends(bc, ret, raised, result) ==
            /\ share_miner' = [share_miner EXCEPT !.pc = "idle", !.block = None,
                                      !.share_index = NoShare]
            /\ Becomes(Sweep(bc, Mined(share_miner) \ {None}))
            /\ last' = [Call("mine_share_threads", ret, id,
                             [share_index |-> share_miner.share_index,
                              result |-> result])
                            EXCEPT !.bad = IF raised THEN {"raised"} ELSE {}]
           found(h, c, result) == ends(h.bc, c.ret, h.raised, result)
           claimed(result, c) ==
            IF ~Coin_mint_takes_share_index
            THEN ends([Self EXCEPT !.blocks[id] = c.self], c.ret, TRUE,
                      result.share_index)
            ELSE IF result.is_block_find
            THEN found(_handle_block_find([Self EXCEPT !.blocks[id] = c.self],
                                          id, "bob", result.nonce,
                                          result.hash_value, now),
                       c, result.share_index)
            ELSE ends([Self EXCEPT !.blocks[id] = c.self], c.ret, FALSE,
                      result.share_index)
           claim(result) ==
            claimed(result, claim_share(blocks[id], result.share_index, "bob",
                                        result.nonce, result.hash_value, now))
       IN  IF share_miner.found_result # <<>>
           THEN claim(share_miner.found_result[1])
           ELSE ends(Self, FALSE, FALSE, NoShare)
    /\ UNCHANGED <<now, threads, node>>

\* _mine_thread: header = block.compute_header(); nonce = start_nonce
WorkerStart(w) ==
    /\ share_miner.workers[w].pc = "start"
    /\ LET self == share_miner.workers[w]
       IN  share_miner' = [share_miner EXCEPT !.workers[w] =
                [self EXCEPT !.pc = "test",
                             !.header = <<compute_header(blocks[self.block])>>,
                             !.nonce = self.start_nonce]]
    /\ UNCHANGED <<blocks, chain, pending_transactions, share_difficulty,
                   block_difficulty, current_open_block, now, threads, node,
                   last>>

\* _mine_thread: while not self._stop_event.is_set()
WorkerTest(w) ==
    /\ share_miner.workers[w].pc = "test"
    /\ share_miner' = [share_miner EXCEPT !.workers[w].pc =
                    IF share_miner.stop_event THEN "done" ELSE "hash"]
    /\ UNCHANGED <<blocks, chain, pending_transactions, share_difficulty,
                   block_difficulty, current_open_block, now, threads, node,
                   last>>

\* _mine_thread: one hash and its two difficulty checks; past MaxNonce the
\* search goes on without a find
WorkerHash(w) ==
    /\ share_miner.workers[w].pc = "hash"
    /\ LET self == share_miner.workers[w]
           block == blocks[self.block]
           checked(hash_value, is_block_find) ==
            IF self.nonce > MaxNonce
            THEN [self EXCEPT !.pc = "test"]
            ELSE IF check_difficulty(hash_value, block.share_difficulty)
                    \/ is_block_find
            THEN [self EXCEPT !.pc = "store",
                              !.hash_value = hash_value,
                              !.is_block_find = is_block_find]
            ELSE [self EXCEPT !.pc = "test", !.nonce = @ + NumThreads]
           hashed(hash_value) ==
            checked(hash_value,
                    check_difficulty(hash_value, block.block_difficulty))
       IN  share_miner' = [share_miner EXCEPT !.workers[w] =
                hashed(mining_hash(self.header[1], self.nonce,
                                   block.previous_hash))]
    /\ UNCHANGED <<blocks, chain, pending_transactions, share_difficulty,
                   block_difficulty, current_open_block, now, threads, node,
                   last>>

\* _mine_thread: with self._lock, _found_result is assigned if it is None
\* and the flag is set; the thread returns
WorkerStore(w) ==
    /\ share_miner.workers[w].pc = "store"
    /\ LET self == share_miner.workers[w]
       IN  share_miner' =
            IF share_miner.found_result = <<>>
            THEN [share_miner EXCEPT
                    !.found_result =
                        <<[success |-> TRUE,
                           share_index |-> self.share_index,
                           nonce |-> self.nonce,
                           hash_value |-> self.hash_value,
                           is_block_find |-> self.is_block_find]>>,
                    !.stop_event = TRUE,
                    !.writes = @ + 1,
                    !.written_by = self.call,
                    !.workers[w].pc = "done"]
            ELSE [share_miner EXCEPT !.workers[w].pc = "done"]
    /\ UNCHANGED <<blocks, chain, pending_transactions, share_difficulty,
                   block_difficulty, current_open_block, now, threads, node,
                   last>>

\* the multi-threaded search: mine_share called again and again by the main
\* thread, and the worker threads it has started
NextWorkers ==
    \/ MinerCall
    \/ MinerOpen
    \/ MinerStartThreads
    \/ MinerWait
    \/ MinerFinish
    \/ \E w \in 1..Len(share_miner.workers) : WorkerStart(w)
    \/ \E w \in 1..Len(share_miner.workers) : WorkerTest(w)
    \/ \E w \in 1..Len(share_miner.workers) : WorkerHash(w)
    \/ \E w \in 1..Len(share_miner.workers) : WorkerStore(w)

SpecWorkers == Init /\ [][NextWorkers]_vars

\* the ledger: the Blockchain object driven through its own operations and
\* by peers
Next ==
    \/ AddTransaction
    \/ GetOrCreateOpenBlock
    \/ CloseCurrentBlock
    \/ NewBlock
    \/ ReplaceChain

Spec == Init /\ [][Next]_vars

\* the shares of the open block: claims and closures called on the Block
\* object, by a local miner and through the mining server, as time passes
\* and further instances are constructed
NextShares ==
    \/ Tick
    \/ GetOrCreateOpenBlock
    \/ ClaimShare
    \/ CloseBlock
    \/ MineShare
    \/ SubmitShare
    \/ NewBlockchain

SpecShares == Init /\ [][NextShares]_vars

\* persistence: the Blockchain object with transactions pending, shares
\* claimed and blocks closed, saved and loaded in every state
NextPersist ==
    \/ AddTransaction
    \/ GetOrCreateOpenBlock
    \/ ClaimShare
    \/ CloseCurrentBlock
    \/ FromDict

SpecPersist == Init /\ [][NextPersist]_vars

\* the mining server: its Blockchain is changed by share submissions alone
NextServer ==
    \/ Tick
    \/ SubmitShare

SpecServer == Init /\ [][NextServer]_vars

\* ---------------------------------------------------------------- threads
\* Miner threads that share one Blockchain object and each run
\* ShareMiner.mine_share with the wallet of their name. Block and Blockchain
\* take no lock, so the interpreter may switch threads between any two
\* statements; a step below is a run of statements without a switch.

\* the Block objects the local variables of the threads refer to
ThreadRoots(th) == {th[t].block : t \in Threads} \ {None}

\* the id of the first Block that is allocated after genesis
SharedBlock == Len(Blockchain(StartTime).blocks) + 1

\* a Blockchain whose open block has exactly as many unclaimed shares as
\* there are threads
SharedBlockchain ==
    LET g == get_or_create_open_block(Blockchain(StartTime), StartTime)
        taken == SHARES_PER_BLOCK - Cardinality(Threads)
    IN  [g.bc EXCEPT !.blocks[g.ret] =
            claim_each(@, [i \in 1..taken |-> i - 1], "", 0, ZeroHash,
                       StartTime)]

InitThreads ==
    /\ threads = [t \in Threads |-> NotStarted]
    /\ node = Node
    /\ share_miner = MultiThreadedShareMiner
    /\ blocks = SharedBlockchain.blocks
    /\ chain = SharedBlockchain.chain
    /\ pending_transactions = SharedBlockchain.pending_transactions
    /\ share_difficulty = SharedBlockchain.share_difficulty
    /\ block_difficulty = SharedBlockchain.block_difficulty
    /\ current_open_block = SharedBlockchain.current_open_block
    /\ now = StartTime
    /\ last = Call("init", TRUE, None, 0)

\* mine_share up to the search loop: the open block and the share to mine
ThreadOpen(t) ==
    /\ threads[t].pc = "start"
    /\ (\/ NeedsBlock
        \/ get_next_share_index(blocks[current_open_block]) = NoShare)
            => NextId(Self) <= MaxBlocks
    /\ LET holds(bc, th) ==
            /\ threads' = th
            /\ Becomes(Sweep(bc, ThreadRoots(th)))
           mine(bc, id, share_index) ==
            holds(bc, [threads EXCEPT ![t] =
                        [@ EXCEPT !.pc = "search",
                                  !.block = id,
                                  !.share_index = share_index]])
           fresh(c) == mine([c.bc EXCEPT !.current_open_block = c.ret], c.ret, 0)
           open(g, share_index) ==
            IF share_index = NoShare
            THEN fresh(create_block(g.bc, "", now))
            ELSE mine(g.bc, g.ret, share_index)
           start(g) == open(g, get_next_share_index(g.bc.blocks[g.ret]))
       IN  start(get_or_create_open_block(Self, now))
    /\ UNCHANGED <<now, last, node, share_miner>>

\* the search loop of mine_share, up to the nonce it stops at
ThreadSearch(t) ==
    /\ threads[t].pc = "search"
    /\ LET block == blocks[threads[t].block]
           hashed(nonce, hash_value) ==
            threads' = [threads EXCEPT ![t] =
                [@ EXCEPT !.pc = "check",
                          !.nonce = nonce,
                          !.hash_value = hash_value,
                          !.is_block_find =
                              check_difficulty(hash_value, block.block_difficulty)]]
           found(nonce) ==
            /\ nonce # NoNonce
            /\ hashed(nonce, mining_hash(compute_header(block), nonce,
                                         block.previous_hash))
       IN  found(search(block, block.nonce))
    /\ UNCHANGED <<blocks, chain, pending_transactions, share_difficulty,
                   block_difficulty, current_open_block, now, last, node, share_miner>>

\* claim_share, its two checks
ThreadClaimCheck(t) ==
    /\ threads[t].pc = "check"
    /\ LET self == blocks[threads[t].block]
           share_index == threads[t].share_index
       IN  threads' = [threads EXCEPT ![t] =
                IF share_index \in Range(self.claimed_shares)
                THEN [@ EXCEPT !.pc = "claimed", !.ret = FALSE]
                ELSE IF share_index < 0 \/ share_index >= SHARES_PER_BLOCK
                THEN [@ EXCEPT !.pc = "claimed", !.ret = FALSE]
                ELSE [@ EXCEPT !.pc = "append"]]
    /\ UNCHANGED <<blocks, chain, pending_transactions, share_difficulty,
                   block_difficulty, current_open_block, now, last, node, share_miner>>

\* claim_share, self.claimed_shares.append(share_index)
ThreadClaimAppend(t) ==
    /\ threads[t].pc = "append"
    /\ blocks' = [blocks EXCEPT ![threads[t].block].claimed_shares =
                    Append(@, threads[t].share_index)]
    /\ threads' = [threads EXCEPT ![t].pc = "record"]
    /\ UNCHANGED <<chain, pending_transactions, share_difficulty,
                   block_difficulty, current_open_block, now, last, node, share_miner>>

\* claim_share, self.share_claims.append(...) and return True
ThreadClaimRecord(t) ==
    /\ threads[t].pc = "record"
    /\ blocks' = [blocks EXCEPT ![threads[t].block].share_claims =
                    Append(@, [share_index |-> threads[t].share_index,
                               miner |-> t,
                               nonce |-> threads[t].nonce,
                               hash |-> threads[t].hash_value,
                               timestamp |-> now])]
    /\ threads' = [threads EXCEPT ![t] = [@ EXCEPT !.pc = "claimed", !.ret = TRUE]]
    /\ UNCHANGED <<chain, pending_transactions, share_difficulty,
                   block_difficulty, current_open_block, now, last, node, share_miner>>

\* the rest of mine_share after claim_share has returned: whatever
\* claim_share returned, Coin.mint is called, and were a coin minted, a block
\* find would be handled
ThreadFinish(t) ==
    /\ threads[t].pc = "claimed"
    /\ LET holds(bc, th) ==
            /\ threads' = th
            /\ Becomes(Sweep(bc, ThreadRoots(th)))
           found(h) ==
            holds(h.bc, [threads EXCEPT ![t] =
                            [@ EXCEPT !.pc = "done", !.block = None]])
       IN  IF threads[t].is_block_find /\ Coin_mint_takes_share_index
           THEN found(_handle_block_find(Self, threads[t].block, t,
                                         threads[t].nonce,
                                         threads[t].hash_value, now))
           ELSE found([bc |-> Self])
    /\ UNCHANGED <<now, last, node, share_miner>>

NextThreads ==
    \E t \in Threads :
        \/ ThreadOpen(t)
        \/ ThreadSearch(t)
        \/ ThreadClaimCheck(t)
        \/ ThreadClaimAppend(t)
        \/ ThreadClaimRecord(t)
        \/ ThreadFinish(t)

SpecThreads == InitThreads /\ [][NextThreads]_vars

\* ------------------------------------------------------------------ stop
\* one iteration of the "while True" loop of ShareMiner.mine_share: a hash,
\* its two difficulty checks, and either the way out to claim_share or
\* nonce += 1.  The loop reads neither is_mining nor the flag
ThreadHash(t) ==
    /\ threads[t].pc = "search"
    /\ LET self == threads[t]
           block == blocks[self.block]
           nonce == IF self.nonce = NoNonce THEN block.nonce ELSE self.nonce
           counted == [self EXCEPT !.after_stop =
                        IF self.stop_event THEN Min(@ + 1, 2) ELSE @]
           checked(hash_value, is_block_find) ==
            IF check_difficulty(hash_value, block.share_difficulty)
               \/ is_block_find
            THEN [counted EXCEPT !.pc = "check",
                                 !.nonce = nonce,
                                 !.hash_value = hash_value,
                                 !.is_block_find = is_block_find]
            ELSE [counted EXCEPT !.nonce = nonce + 1]
           hashed(hash_value) ==
            checked(hash_value,
                    check_difficulty(hash_value, block.block_difficulty))
       IN  /\ nonce <= MaxNonce
           /\ threads' = [threads EXCEPT ![t] =
                hashed(mining_hash(compute_header(block), nonce,
                                   block.previous_hash))]
    /\ UNCHANGED <<blocks, chain, pending_transactions, share_difficulty,
                   block_difficulty, current_open_block, now, last, node,
                   share_miner>>

\* ShareMiner.stop called by another thread on the miner of thread t
ThreadStop(t) ==
    /\ ~threads[t].stop_event
    /\ threads' = [threads EXCEPT ![t] =
                    [@ EXCEPT !.stop_event = TRUE,
                              !.cancelled = (threads[t].pc = "search")]]
    /\ UNCHANGED <<blocks, chain, pending_transactions, share_difficulty,
                   block_difficulty, current_open_block, now, last, node,
                   share_miner>>

\* ShareMiner.stop called by another thread on the multi-threaded miner
MinerStop ==
    /\ ~share_miner.stop_event
    /\ share_miner' = [share_miner EXCEPT
                        !.stop_event = TRUE,
                        !.cancelled = (share_miner.pc = "monitor")]
    /\ UNCHANGED <<blocks, chain, pending_transactions, share_difficulty,
                   block_difficulty, current_open_block, now, threads, node,
                   last>>

\* one mine_share call of a single-threaded miner and one of a
\* multi-threaded miner on the same Blockchain, whose pool has taken
\* transactions before, and stop() called on either at any moment
NextStop ==
    \/ AddTransaction /\ share_miner.call = 0 /\ threads["alice"].pc = "start"
    \/ \E t \in {"alice"} :
        \/ ThreadOpen(t)
        \/ ThreadHash(t)
        \/ ThreadStop(t)
        \/ ThreadClaimCheck(t)
        \/ ThreadClaimAppend(t)
        \/ ThreadClaimRecord(t)
        \/ ThreadFinish(t)
    \/ MinerCall /\ share_miner.call = 0
    \/ MinerOpen
    \/ MinerStartThreads
    \/ MinerStop
    \/ MinerWait
    \/ MinerFinish
    \/ \E w \in 1..Len(share_miner.workers) : WorkerStart(w)
    \/ \E w \in 1..Len(share_miner.workers) : WorkerTest(w)
    \/ \E w \in 1..Len(share_miner.workers) : WorkerHash(w)
    \/ \E w \in 1..Len(share_miner.workers) : WorkerStore(w)

SpecStop == Init /\ [][NextStop]_vars

\* ------------------------------------------------------------- difficulty
\* calculate_difficulty applied to Blockchain objects whose chain holds up to
\* MaxChain blocks, at every spacing of their timestamps around the target
\* and at every share_difficulty from 1 to the initial one.

\* BLOCK_TIME_TARGET * DIFFICULTY_ADJUSTMENT_INTERVAL
ExpectedTime == BLOCK_TIME_TARGET * DIFFICULTY_ADJUSTMENT_INTERVAL

\* the time between two blocks that follow each other
Gaps ==
    {0, ExpectedTime \div 2 - 1, ExpectedTime \div 2, ExpectedTime,
     ExpectedTime * 2, ExpectedTime * 2 + 1}

RECURSIVE Grown(_, _)
\* the heap of a chain grown from heap by one closed block per gap
Grown(heap, gaps) ==
    IF gaps = <<>> THEN heap
    ELSE LET tip == heap[Len(heap)]
             block == Block(tip.index + 1, tip.timestamp + Head(gaps), <<>>,
                            tip.hash, 0, INITIAL_SHARE_DIFFICULTY,
                            INITIAL_BLOCK_DIFFICULTY, EmptyStr, "", EmptyStr,
                            TRUE, tip.timestamp + Head(gaps))
         IN  Grown(Append(heap, [block EXCEPT !.hash = compute_hash(block)]),
                   Tail(gaps))

InitDifficulty ==
    \E n \in 0..(MaxChain - 1) :
    \E gaps \in [1..n -> Gaps] :
    \E difficulty \in 1..INITIAL_SHARE_DIFFICULTY :
        /\ threads = [t \in Threads |-> NotStarted]
        /\ node = Node
        /\ share_miner = MultiThreadedShareMiner
    /\ share_miner = MultiThreadedShareMiner
        /\ blocks = Grown(Blockchain(StartTime).blocks, gaps)
        /\ chain = [i \in 1..(n + 1) |-> i]
        /\ pending_transactions = <<>>
        /\ share_difficulty = difficulty
        /\ block_difficulty = difficulty + BLOCK_DIFFICULTY_OFFSET
        /\ current_open_block = None
        /\ now = StartTime + n * (ExpectedTime * 2 + 1)
        /\ last = Call("init", TRUE, None, 0)

\* Blockchain.calculate_difficulty; ret is the pair it returns
CalculateDifficulty ==
    /\ last' = Call("calculate_difficulty", calculate_difficulty(Self), None, 0)
    /\ UNCHANGED <<blocks, chain, pending_transactions, share_difficulty,
                   block_difficulty, current_open_block, now, threads, node, share_miner>>

\* Blockchain.create_block called directly; the caller holds the new Block
\* until its next call.  arg is the pair of difficulties before the call
CreateBlock ==
    /\ Len(blocks) < MaxChain + MaxCreated
    /\ \E miner_address \in {"", "alice"} :
          LET returns(r) ==
                /\ Becomes(Sweep(r.bc, {r.ret}))
                /\ last' = Call("create_block", r.ret, r.ret,
                                <<share_difficulty, block_difficulty>>)
          IN  returns(create_block(Self, miner_address, now))
    /\ UNCHANGED <<now, threads, node, share_miner>>

NextDifficulty ==
    \/ CalculateDifficulty
    \/ CreateBlock
    \/ ReplaceChain

SpecDifficulty == InitDifficulty /\ [][NextDifficulty]_vars

\* ----------------------------------------------------------------- reward
\* get_block_reward and get_share_value applied to the heights around every
\* halving the float format can hold, and to the default height

\* heights at, just after and just before a multiple of HALVING_INTERVAL
Heights ==
    {k * HALVING_INTERVAL + r :
        k \in 0..FLOAT_MAX_EXP, r \in {0, 1, HALVING_INTERVAL - 1}}

\* Blockchain.get_block_reward(height); blk is 1 when height was left out
GetBlockReward ==
    /\ \E h \in Heights \cup {None} :
        last' = Call("get_block_reward",
                     get_block_reward(Self, IF h = None THEN height(Self) + 1
                                            ELSE h),
                     IF h = None THEN 1 ELSE 0,
                     IF h = None THEN height(Self) + 1 ELSE h)
    /\ UNCHANGED <<blocks, chain, pending_transactions, share_difficulty,
                   block_difficulty, current_open_block, now, threads, node, share_miner>>

\* Blockchain.get_share_value(height); blk is 1 when height was left out
GetShareValue ==
    /\ \E h \in Heights \cup {None} :
        last' = Call("get_share_value",
                     get_share_value(Self, IF h = None THEN height(Self) + 1
                                           ELSE h),
                     IF h = None THEN 1 ELSE 0,
                     IF h = None THEN height(Self) + 1 ELSE h)
    /\ UNCHANGED <<blocks, chain, pending_transactions, share_difficulty,
                   block_difficulty, current_open_block, now, threads, node, share_miner>>

NextReward ==
    \/ GetBlockReward
    \/ GetShareValue

SpecReward == InitDifficulty /\ [][NextReward]_vars

\* ----------------------------------------------------------- crypto_utils
\* check_difficulty and merkle_root applied to inputs of their own

\* hash values with every number of leading zero bits: zero, and for each
\* position of the highest set bit the least, the next and the greatest
HashValues ==
    {0} \cup {Pow2(k) : k \in 0..(HASH_BITS - 1)}
        \cup {Pow2(k) + 1 : k \in 1..(HASH_BITS - 1)}
        \cup {Pow2(k + 1) - 1 : k \in 1..(HASH_BITS - 1)}

\* crypto_utils.check_difficulty(hash_hex, difficulty)
CheckDifficulty ==
    /\ \E hash_hex \in HashValues, difficulty \in 0..(HASH_BITS + 1) :
        last' = Call("check_difficulty",
                     check_difficulty(hash_hex, difficulty), None,
                     [hash_hex |-> hash_hex, difficulty |-> difficulty])
    /\ UNCHANGED <<blocks, chain, pending_transactions, share_difficulty,
                   block_difficulty, current_open_block, now, threads, node, share_miner>>

\* the transaction hashes a list holds
Leaves == {sha256(1), sha256(2)}

\* the lists given to merkle_root
LeafLists == UNION {[1..n -> Leaves] : n \in 0..MaxLeaves}

\* crypto_utils.merkle_root(hashes); arg is the caller's list before the
\* call, ret the root and the caller's list after it
MerkleRoot ==
    /\ \E hashes \in LeafLists :
        last' = Call("merkle_root", merkle_root(hashes), None, hashes)
    /\ UNCHANGED <<blocks, chain, pending_transactions, share_difficulty,
                   block_difficulty, current_open_block, now, threads, node, share_miner>>

NextCrypto ==
    \/ CheckDifficulty
    \/ MerkleRoot

SpecCrypto == Init /\ [][NextCrypto]_vars

\* ------------------------------------------------------------------ claims
\* the Block objects that are alive
Live == {id \in 1..Len(blocks) : IsBlock(blocks[id])}

\* the Block objects alive before and after a step
Surviving == {id \in Live : id <= Len(blocks') /\ IsBlock(blocks'[id])}

\* C1: claim_share(share_index, ...) returns false and leaves claimed_shares
\* and share_claims as they were when share_index is already claimed or lies
\* outside 0..SHARES_PER_BLOCK-1; otherwise it returns true, appends exactly
\* share_index to claimed_shares and one record of the claim to share_claims.
C1_ClaimShareContract ==
    [][last'.op = "claim_share" =>
        LET before == blocks[last'.blk]
            after == blocks'[last'.blk]
            share_index == last'.arg
            n == Len(before.share_claims)
        IN  IF \/ \E i \in 1..Len(before.claimed_shares) :
                        before.claimed_shares[i] = share_index
               \/ share_index < 0
               \/ share_index > SHARES_PER_BLOCK - 1
            THEN /\ last'.ret = FALSE
                 /\ after.claimed_shares = before.claimed_shares
                 /\ after.share_claims = before.share_claims
            ELSE /\ last'.ret = TRUE
                 /\ after.claimed_shares = before.claimed_shares \o <<share_index>>
                 /\ Len(after.share_claims) = n + 1
                 /\ SubSeq(after.share_claims, 1, n) = before.share_claims
                 /\ after.share_claims[n + 1].share_index = share_index
                 /\ after.share_claims[n + 1].miner = "alice"
                 /\ after.share_claims[n + 1].nonce = 0
    ]_vars

\* a claim of an index that was already claimed has been refused
C1_Witness ==
    /\ last.op = "claim_share"
    /\ last.ret = FALSE
    /\ \E i \in 1..Len(blocks[last.blk].claimed_shares) :
            blocks[last.blk].claimed_shares[i] = last.arg

\* C2: when the threads claim shares on one block that has exactly as many
\* unclaimed shares as there are threads, each reading get_next_share_index
\* and then calling claim_share, every one of their claims succeeds and no
\* share index is recorded twice.
C2_ConcurrentClaims ==
    (\A t \in Threads : /\ threads[t].pc = "claimed"
                        /\ threads[t].block = SharedBlock) =>
        LET claimed == blocks[SharedBlock].claimed_shares
        IN  /\ \A t \in Threads : threads[t].ret = TRUE
            /\ \A i, j \in 1..Len(claimed) : i # j => claimed[i] # claimed[j]

\* C3: in every block, whatever claims, closures, mining and submissions
\* came before, the indices in claimed_shares are pairwise distinct and each
\* lies in 0..SHARES_PER_BLOCK-1.
C3_ClaimedSharesDistinctInRange ==
    \A id \in Live :
        LET claimed == blocks[id].claimed_shares
        IN  /\ \A i, j \in 1..Len(claimed) : i # j => claimed[i] # claimed[j]
            /\ \A i \in 1..Len(claimed) :
                    claimed[i] >= 0 /\ claimed[i] <= SHARES_PER_BLOCK - 1

\* a block is fully claimed after a claim of a taken index was refused
C3_Witness ==
    /\ last.op = "claim_share"
    /\ last.ret = FALSE
    /\ last.arg \in 0..(SHARES_PER_BLOCK - 1)
    /\ Len(blocks[last.blk].claimed_shares) = SHARES_PER_BLOCK

\* C4: once is_closed of a block is true, no operation sets it back to false.
C4_ClosedStaysClosed ==
    [][\A id \in Surviving : blocks[id].is_closed => blocks'[id].is_closed]_vars

\* close_block has been called on a block that was closed already
C4_Witness ==
    /\ last.op = "close_block"
    /\ last.arg = 1
    /\ blocks[last.blk].is_closed

\* C5: once a block is closed, no later operation changes its claimed_shares,
\* share_claims, miner, nonce or hash.
C5_ClosedBlockImmutable ==
    [][\A id \in Surviving :
        blocks[id].is_closed =>
            /\ blocks'[id].claimed_shares = blocks[id].claimed_shares
            /\ blocks'[id].share_claims = blocks[id].share_claims
            /\ blocks'[id].miner = blocks[id].miner
            /\ blocks'[id].nonce = blocks[id].nonce
            /\ blocks'[id].hash = blocks[id].hash
    ]_vars

\* C6: every block stored in chain is closed, and at most one block that is
\* not closed exists, namely current_open_block; also after add_block of a
\* block a peer announced.
C6_ChainClosedOneOpen ==
    /\ \A i \in 1..Len(chain) : blocks[chain[i]].is_closed
    /\ \A id \in Live : ~blocks[id].is_closed => id = current_open_block

\* C7: for every i > 0, chain[i].index = chain[i-1].index + 1 and
\* chain[i].previous_hash = chain[i-1].hash, and chain[0] is the genesis block.
C7_ChainLinked ==
    /\ blocks[chain[1]] = _create_genesis_block(StartTime)
    /\ \A i \in 2..Len(chain) :
        /\ blocks[chain[i]].index = blocks[chain[i - 1]].index + 1
        /\ blocks[chain[i]].previous_hash = blocks[chain[i - 1]].hash

\* add_block has appended a block to a chain that already held one beyond
\* genesis
C7_Witness ==
    /\ last.called
    /\ last.added
    /\ Len(chain) >= 3
    /\ chain[Len(chain)] = last.blk

\* C8: every closed block in the chain, genesis included, has a hash equal to
\* mining_hash over its current header and nonce, and that hash meets the
\* block's own block_difficulty.
C8_ClosedBlocksProven ==
    \A i \in 1..Len(chain) :
        LET block == blocks[chain[i]]
        IN  block.is_closed =>
              /\ block.hash = mining_hash(compute_header(block), block.nonce,
                                          block.previous_hash)
              /\ check_difficulty(block.hash, block.block_difficulty)

\* C9: add_block returns false and leaves chain and pending_transactions
\* unchanged whenever the block's previous_hash differs from the tip's hash,
\* its index is not tip.index + 1, or its recomputed hash differs from its
\* stored hash or fails its recorded difficulty.
C9_AddBlockRejects ==
    [][(last'.called /\ last'.bad \cap {"prev", "index", "pow"} # {}) =>
        /\ ~last'.added
        /\ chain' = chain
        /\ pending_transactions' = pending_transactions
    ]_vars

\* add_block has refused a block while transactions were pending
C9_Witness ==
    /\ last.called
    /\ last.bad \cap {"prev", "index", "pow"} # {}
    /\ ~last.added
    /\ pending_transactions # <<>>

\* the txids of the transactions of a block
Txids(block) == {block.transactions[i].txid : i \in 1..Len(block.transactions)}

\* C10: when add_block succeeds, the chain grows by exactly the given block
\* at the tip, every pending transaction whose txid occurs in the block is
\* removed from pending_transactions, and every other pending transaction is
\* kept in its original order.
C10_AddBlockAppendsAndPrunes ==
    [][(last'.called /\ last'.added) =>
        LET included == Txids(blocks'[last'.blk])
            kept == {i \in 1..Len(pending_transactions) :
                        pending_transactions[i].txid \notin included}
            nth(k) == CHOOSE i \in kept :
                        Cardinality({j \in kept : j <= i}) = k
        IN  /\ chain' = chain \o <<last'.blk>>
            /\ Len(pending_transactions') = Cardinality(kept)
            /\ \A k \in 1..Len(pending_transactions') :
                    pending_transactions'[k] = pending_transactions[nth(k)]
    ]_vars

\* add_block has succeeded, removed a pending transaction and kept another
C10_Witness ==
    /\ last.called
    /\ last.added
    /\ last.removed > 0
    /\ pending_transactions # <<>>

\* C11: replace_chain(candidate) replaces the local chain only if the
\* candidate is longer than the local chain and every adjacent pair of its
\* blocks validates; in every other case it returns false and chain,
\* share_difficulty, block_difficulty and pending_transactions are unchanged.
C11_ReplaceChainSwapOrNothing ==
    [][last'.op = "replace_chain" =>
        LET acceptable == /\ "longer" \in last'.bad
                          /\ "invalid" \notin last'.bad
        IN  /\ acceptable
                \/ /\ "raised" \notin last'.bad
                   /\ last'.ret = FALSE
            /\ acceptable
                \/ /\ chain' = chain
                   /\ share_difficulty' = share_difficulty
                   /\ block_difficulty' = block_difficulty
                   /\ pending_transactions' = pending_transactions
            /\ (last'.ret = TRUE \/ chain' # chain) => acceptable
    ]_vars

\* C12: replace_chain rejects, by returning false and keeping the local
\* chain, a candidate that is longer than the local chain but contains a
\* block whose transaction list was altered without updating its merkle_root.
C12_ReplaceChainRejectsTampered ==
    [][(/\ last'.op = "replace_chain"
        /\ "longer" \in last'.bad
        /\ "tampered" \in last'.bad) =>
            /\ "raised" \notin last'.bad
            /\ last'.ret = FALSE
            /\ chain' = chain
    ]_vars

\* C13: validation failures are results, never exceptions: replace_chain
\* returns true or false for every candidate chain, shorter, equal, longer
\* and invalid, longer and valid, and add_block returns true or false for
\* every block.
C13_NoValidationException ==
    (last.op = "replace_chain" \/ last.called) => "raised" \notin last.bad

\* C14: a rejected share submission (block index mismatch, block already
\* closed, recomputed hash differs, share difficulty not met, no shares
\* remaining) returns a failure and mutates no ledger state: chain,
\* current_open_block, its claimed_shares and the difficulty pair are the same
\* before and after, also when no open block existed before the submission.
C14_RejectedSubmissionNoMutation ==
    [][(last'.op = "submit_share" /\ ~last'.ret.success) =>
        /\ chain' = chain
        /\ current_open_block' = current_open_block
        /\ share_difficulty' = share_difficulty
        /\ block_difficulty' = block_difficulty
        /\ current_open_block # None =>
                blocks'[current_open_block].claimed_shares
                    = blocks[current_open_block].claimed_shares
    ]_vars

\* C15: the server records a share claim only if its own recomputation of
\* mining_hash(stored header, submitted nonce, previous_hash) equals the
\* submitted hash and meets the open block's share_difficulty, and closes a
\* block only when that recomputed hash also meets its block_difficulty.
C15_ServerRecomputesProof ==
    [][last'.op = "submit_share" =>
        LET g == get_or_create_open_block(Self, now)
            block == g.bc.blocks[g.ret]
            recomputed == mining_hash(compute_header(block), last'.arg.nonce,
                                      block.previous_hash)
            alive == g.ret <= Len(blocks') /\ IsBlock(blocks'[g.ret])
            recorded == ~alive \/ blocks'[g.ret].share_claims # block.share_claims
            closed == ~alive \/ blocks'[g.ret].is_closed
        IN  /\ (recorded \/ last'.ret.success) =>
                    /\ recomputed = last'.arg.hash
                    /\ check_difficulty(recomputed, block.share_difficulty)
            /\ (closed \/ last'.ret.is_block_find) =>
                    /\ recomputed = last'.arg.hash
                    /\ check_difficulty(recomputed, block.block_difficulty)
    ]_vars

\* the server has accepted a proof that also closed the block
C15_Witness ==
    /\ last.op = "submit_share"
    /\ last.ret.success
    /\ last.ret.is_block_find
    /\ last.arg.hash # ZeroHash

\* C16: on a block find the server claims the finder's share and all the
\* remaining unclaimed shares of the block for the finder before closing it,
\* so the block it closes has shares_remaining() = 0 and every share index
\* 0..SHARES_PER_BLOCK-1 has a claim record.
C16_ServerClaimsAllOnFind ==
    [][(/\ last'.op = "submit_share"
        /\ last'.ret.success
        /\ last'.ret.is_block_find
        /\ last'.blk \in Range(chain')) =>
            LET block == blocks'[last'.blk]
            IN  /\ block.is_closed
                /\ SHARES_PER_BLOCK - Len(block.claimed_shares) = 0
                /\ \A i \in 0..(SHARES_PER_BLOCK - 1) :
                        \E k \in 1..Len(block.share_claims) :
                            /\ block.share_claims[k].share_index = i
                            /\ block.share_claims[k].miner = block.miner
    ]_vars

\* the Blockchain object after a step
SelfAfter ==
    [blocks |-> blocks',
     chain |-> chain',
     pending_transactions |-> pending_transactions',
     share_difficulty |-> share_difficulty',
     block_difficulty |-> block_difficulty',
     current_open_block |-> current_open_block']

\* C17: when a hash meeting block difficulty is found for the open block, by
\* the local miner's mine_share/_handle_block_find or by an accepted server
\* submission, the block is closed and joins the chain: the chain length
\* increases by exactly one, the new tip is that block at index old height + 1,
\* and validate_chain() still returns true.
C17_BlockFindJoinsChain ==
    [][(\/ /\ last'.op = "mine_share"
           /\ last'.ret.is_block_find
        \/ /\ last'.op = "submit_share"
           /\ last'.ret.success
           /\ last'.ret.is_block_find) =>
            /\ Len(chain') = Len(chain) + 1
            /\ chain'[Len(chain')] = last'.blk
            /\ blocks'[last'.blk].is_closed
            /\ blocks'[last'.blk].index = (Len(chain) - 1) + 1
            /\ validate_chain(SelfAfter, now)
    ]_vars

\* C18: get_or_create_open_block never returns a closed block: after a block
\* has been closed, every later get_or_create_open_block call, and so every
\* /block/current template, refers to a block with is_closed = false, which
\* is the block current_open_block refers to.
C18_OpenBlockNotClosed ==
    last.op = "get_or_create_open_block" =>
        /\ last.ret # None
        /\ ~blocks[last.ret].is_closed
        /\ current_open_block = last.ret

\* get_or_create_open_block has been called while current_open_block
\* referred to a closed block
C18_Witness ==
    /\ last.op = "get_or_create_open_block"
    /\ last.arg = 1
    /\ ~blocks[last.ret].is_closed

\* C19: two freshly constructed Blockchain instances have identical genesis
\* blocks: the same hash, nonce = 0, is_closed = true, index 0, a
\* previous_hash of 64 zeros and the same header fields, whenever each of
\* them is constructed.
C19_GenesisIdentical ==
    last.op = "Blockchain" =>
        LET first == blocks[chain[1]]
            second == last.ret
        IN  /\ second.hash = first.hash
            /\ second.nonce = 0 /\ first.nonce = 0
            /\ second.is_closed /\ first.is_closed
            /\ second.index = 0 /\ first.index = 0
            /\ second.previous_hash = ZeroHash /\ first.previous_hash = ZeroHash
            /\ second.timestamp = first.timestamp
            /\ second.merkle_root = first.merkle_root
            /\ second.share_difficulty = first.share_difficulty
            /\ second.block_difficulty = first.block_difficulty
            /\ second.miner = first.miner

\* a second instance has been constructed later than the first
C19_Witness ==
    /\ last.op = "Blockchain"
    /\ now > StartTime
    /\ last.ret.opened_at > blocks[chain[1]].opened_at

\* the timestamp of the last block of the chain minus that of the first of
\* its last DIFFICULTY_ADJUSTMENT_INTERVAL blocks
Elapsed ==
    blocks[chain[Len(chain)]].timestamp
        - blocks[chain[Len(chain) - DIFFICULTY_ADJUSTMENT_INTERVAL + 1]].timestamp

\* C20: calculate_difficulty returns a share difficulty that differs from
\* the current one by at most 1: +1 if the elapsed time of the last interval
\* is below half the target, -1 but never below 1 if it is above twice the
\* target, otherwise unchanged; and the returned block difficulty equals the
\* returned share difficulty + BLOCK_DIFFICULTY_OFFSET.
C20_DifficultyStep ==
    last.op = "calculate_difficulty" =>
        LET share == last.ret[1]
            block == last.ret[2]
            full == Len(chain) >= DIFFICULTY_ADJUSTMENT_INTERVAL + 1
            target == BLOCK_TIME_TARGET * DIFFICULTY_ADJUSTMENT_INTERVAL
        IN  /\ share - share_difficulty \in {0 - 1, 0, 1}
            /\ share >= 1
            /\ (full /\ 2 * Elapsed < target) => share = share_difficulty + 1
            /\ (full /\ Elapsed > 2 * target) =>
                    share = (IF share_difficulty > 1 THEN share_difficulty - 1
                             ELSE 1)
            /\ (full /\ 2 * Elapsed >= target /\ Elapsed <= 2 * target) =>
                    share = share_difficulty
            /\ ~full => share = share_difficulty
            /\ block = share + BLOCK_DIFFICULTY_OFFSET

\* calculate_difficulty has kept share difficulty 1 after a slow interval
C20_Witness ==
    /\ last.op = "calculate_difficulty"
    /\ Len(chain) >= DIFFICULTY_ADJUSTMENT_INTERVAL + 1
    /\ Elapsed > 2 * BLOCK_TIME_TARGET * DIFFICULTY_ADJUSTMENT_INTERVAL
    /\ share_difficulty = 1
    /\ last.ret[1] = 1

\* C21: difficulty is re-evaluated only every DIFFICULTY_ADJUSTMENT_INTERVAL
\* blocks: a block created by create_block at a height that is not a multiple
\* of the interval has the share_difficulty and block_difficulty that were in
\* force before the call, and the Blockchain keeps them
C21_DifficultyOnlyAtBoundary ==
    (/\ last.op = "create_block"
     /\ blocks[last.blk].index % DIFFICULTY_ADJUSTMENT_INTERVAL # 0)
        => /\ share_difficulty = last.arg[1]
           /\ block_difficulty = last.arg[2]
           /\ blocks[last.blk].share_difficulty = last.arg[1]
           /\ blocks[last.blk].block_difficulty = last.arg[2]

\* C22: in every state of a Blockchain, share_difficulty is an integer that
\* is at least 1 and block_difficulty is share_difficulty plus
\* BLOCK_DIFFICULTY_OFFSET, and the same holds of the two fields of every
\* block, those made by create_block included; replace_chain leaves it so
C22_DifficultyOffset ==
    /\ share_difficulty \in Nat
    /\ share_difficulty >= 1
    /\ block_difficulty = share_difficulty + BLOCK_DIFFICULTY_OFFSET
    /\ \A id \in Live :
        /\ blocks[id].share_difficulty \in Nat
        /\ blocks[id].share_difficulty >= 1
        /\ blocks[id].block_difficulty =
                blocks[id].share_difficulty + BLOCK_DIFFICULTY_OFFSET

\* create_block has found the last interval slow and has lowered a
\* share_difficulty of 1 no further
C22_Witness ==
    /\ last.op = "create_block"
    /\ last.arg[1] = 1
    /\ share_difficulty = 1
    /\ blocks[last.blk].block_difficulty = 1 + BLOCK_DIFFICULTY_OFFSET
    /\ Len(chain) >= DIFFICULTY_ADJUSTMENT_INTERVAL + 1
    /\ Elapsed > ExpectedTime * 2

\* C23: get_block_reward(h) is BLOCK_REWARD / 2^(h div HALVING_INTERVAL) for
\* every height h >= 0, and get_share_value(h) is get_block_reward(h) /
\* SHARES_PER_BLOCK
C23_RewardHalves ==
    /\ last.op = "get_block_reward" =>
        /\ ~last.ret.raised
        /\ last.ret.value * Pow2(last.arg \div HALVING_INTERVAL)
                = BLOCK_REWARD * UNIT
    /\ last.op = "get_share_value" =>
        /\ ~last.ret.raised
        /\ last.ret.value * SHARES_PER_BLOCK * Pow2(last.arg \div HALVING_INTERVAL)
                = BLOCK_REWARD * UNIT

\* C24: for every hash value of HASH_BITS bits and every difficulty d >= 0,
\* check_difficulty(h, d) is true iff the d highest bits of h are all zero
\* (h = 0 has HASH_BITS of them); so a hash that meets d meets every d' <= d
C24_CheckDifficultyLeadingZeros ==
    last.op = "check_difficulty" =>
        LET h == last.arg.hash_hex
            d == last.arg.difficulty
        IN  /\ last.ret <=>
                    /\ d <= HASH_BITS
                    /\ \A i \in 1..d : (h \div Pow2(HASH_BITS - i)) % 2 = 0
            /\ last.ret => \A lower \in 0..d : check_difficulty(h, lower)

\* check_difficulty has accepted a hash that is not zero at exactly the
\* number of its leading zero bits, and has rejected it one above
C24_Witness ==
    /\ last.op = "check_difficulty"
    /\ last.ret
    /\ last.arg.hash_hex # 0
    /\ last.arg.difficulty > 0
    /\ ~check_difficulty(last.arg.hash_hex, last.arg.difficulty + 1)

\* C25: merkle_root of the empty list is the hash of the empty string, of a
\* list of one hash that hash, of a list of odd length 3 or more the root of
\* the list with its last element repeated; the caller's list is unchanged
C25_MerkleRootPure ==
    last.op = "merkle_root" =>
        LET hashes == last.arg
        IN  /\ hashes = <<>> => last.ret.ret = sha256(EmptyStr)
            /\ Len(hashes) = 1 => last.ret.ret = hashes[1]
            /\ (Len(hashes) >= 3 /\ Len(hashes) % 2 = 1) =>
                    last.ret.ret
                        = merkle_root(Append(hashes, hashes[Len(hashes)])).ret
            /\ Len(hashes) = 2 =>
                    last.ret.ret = double_sha256(hashes[1], hashes[2])
            /\ last.ret.hashes = hashes

\* merkle_root has padded a list of odd length whose last element differs
\* from the one before it
C25_Witness ==
    /\ last.op = "merkle_root"
    /\ Len(last.arg) = MaxLeaves
    /\ last.arg[MaxLeaves] # last.arg[MaxLeaves - 1]
    /\ last.ret.hashes = last.arg

\* C26: persisting and reloading is a round trip: in every state,
\* Blockchain.from_dict(self.to_dict()) has the same chain, every field of
\* every block included, the same share_difficulty and block_difficulty, the
\* same pending_transactions and the same current_open_block or none
C26_RoundTrip ==
    last.op = "from_dict" => last.bad = {}

\* a Blockchain has been loaded whose chain has grown, with a transaction
\* pending and an open block that has a share claimed
C26_Witness ==
    /\ last.op = "from_dict"
    /\ Len(chain) > 1
    /\ pending_transactions # <<>>
    /\ current_open_block # None
    /\ blocks[current_open_block].share_claims # <<>>
    /\ ~blocks[current_open_block].is_closed

\* C27: if the listening socket cannot be bound, Node.start() raises, and
\* the node does not appear to be running: is_running is false afterwards
\* and no accept or maintenance thread has been started
C27_FailedStartNotRunning ==
    (/\ last.op = "start"
     /\ "raised" \in last.bad
     /\ ~last.arg.is_running)
        => /\ ~node.is_running
           /\ Len(node._threads) = last.arg.started

\* C28: on a block find the mining engine claims every share index still
\* unclaimed for the finder, then calls close_block, then add_block, then
\* clears current_open_block: after mine_share has found a block, the block
\* has no unclaimed share and is closed, current_open_block refers to
\* nothing, and the next get_or_create_open_block allocates a fresh block
C28_BlockFindOrder ==
    (/\ last.op = "mine_share"
     /\ last.ret.is_block_find)
        => /\ IsBlock(blocks[last.blk])
           /\ get_unclaimed_shares(blocks[last.blk]) = <<>>
           /\ blocks[last.blk].is_closed
           /\ current_open_block = None
           /\ get_or_create_open_block(Self, now).ret # last.blk

C30_ExactlyOnceWinner ==
    /\ share_miner.writes <= 1
    /\ share_miner.found_result # <<>> =>
        /\ share_miner.stop_event
        /\ share_miner.writes = 1
        /\ share_miner.written_by = share_miner.call
        /\ share_miner.pc # "idle" =>
                share_miner.found_result[1].share_index = share_miner.share_index
    /\ \A w \in 1..Len(share_miner.workers) :
            share_miner.workers[w].call < share_miner.call =>
                share_miner.workers[w].pc = "done"

\* C31: cancellation is cooperative and bounded: after stop() is called
\* while a nonce search is running, the search, single-threaded or
\* multi-threaded, begins at most one further hash iteration and ends without
\* a share being claimed
C31_StopBounded ==
    /\ \A t \in Threads :
        /\ threads[t].after_stop <= 1
        /\ threads[t].cancelled =>
            /\ threads[t].pc \notin {"append", "record"}
            /\ threads[t].pc \in {"claimed", "done"} => ~threads[t].ret
    /\ share_miner.cancelled => share_miner.found_result = <<>>

\* C32: when a node receives a new_block announcement that add_block
\* accepts, it re-broadcasts the block to its other peers and never sends it
\* back to the peer it received it from
C32_NotBackToSender ==
    (last.op = "new_block" /\ last.ret) =>
        last.arg.sent = node.peers \ {last.arg.sender}

C33_LongestChainAdopted ==
    (last.op = "sync_blockchain" /\ last.arg.tips # {}) =>
        \E i \in 1..Len(chain) : blocks[chain[i]].hash \in last.arg.tips

\* C34: the server's open block never gets stuck: in every reachable server
\* state with an open, unclosed block some submission is accepted, and a
\* submission with the correct block index whose recomputed hash meets the
\* block difficulty is accepted and closes the block, even when all
\* SHARES_PER_BLOCK shares have been claimed
C34_OpenBlockNeverStuck ==
    (current_open_block # None /\ ~blocks[current_open_block].is_closed) =>
        LET block == blocks[current_open_block]
            proof(nonce) ==
                mining_hash(compute_header(block), nonce, block.previous_hash)
            meets(nonce, difficulty) == check_difficulty(proof(nonce), difficulty)
            Submitted(nonce) ==
                _process_share_submission(Self, "alice", nonce, proof(nonce),
                                          block.index, now).ret
        IN  /\ \E nonce \in Nonces : Submitted(nonce).success
            /\ \A nonce \in Nonces :
                    meets(nonce, block.block_difficulty) =>
                        /\ Submitted(nonce).success
                        /\ Submitted(nonce).is_block_find

\* C35: one proof of work earns at most one share on the server: within one
\* block no two accepted share claims carry the same nonce, so an (nonce,
\* hash, block_index) that was accepted is rejected when submitted again
C35_OneProofOneShare ==
    \A id \in Live :
        \A i, j \in 1..Len(blocks[id].share_claims) :
            i # j => blocks[id].share_claims[i].nonce
                        # blocks[id].share_claims[j].nonce

\* C36: on a server block find, the bonus_shares returned to the client is
\* the number of share indices of the block still unclaimed after the
\* finder's own share was claimed: own share, bonus shares and the shares
\* claimed before total SHARES_PER_BLOCK, and the indices share_index + 1 ..
\* share_index + bonus_shares the client mints bonus coins for are exactly
\* the unclaimed indices
C36_BonusSharesCount ==
    (/\ last.op = "submit_share"
     /\ last.ret.success
     /\ last.ret.is_block_find
     /\ last.blk \in Range(chain)) =>
        LET block == blocks[last.blk]
            share_index == last.ret.share_index
            bonus_shares == last.ret.bonus_shares
            unclaimed == (0..(SHARES_PER_BLOCK - 1)) \ Range(block.claimed_shares)
        IN  /\ bonus_shares = Cardinality(unclaimed)
            /\ 1 + bonus_shares + (Len(block.claimed_shares) - 1)
                    = SHARES_PER_BLOCK
            /\ (share_index + 1)..(share_index + bonus_shares) = unclaimed

C38_AcceptedShareFrame ==
    [][(/\ last'.op = "submit_share"
        /\ last'.ret.success
        /\ ~last'.ret.is_block_find) =>
            LET g == get_or_create_open_block(Self, now)
                before == g.bc.blocks[g.ret]
                after == blocks'[g.ret]
                lowest == CHOOSE i \in 0..(SHARES_PER_BLOCK - 1) :
                            /\ i \notin Range(before.claimed_shares)
                            /\ \A j \in 0..(i - 1) :
                                    j \in Range(before.claimed_shares)
            IN  /\ chain' = chain
                /\ Len(chain') - 1 = height(Self)
                /\ pending_transactions' = pending_transactions
                /\ share_difficulty' = g.bc.share_difficulty
                /\ block_difficulty' = g.bc.block_difficulty
                /\ current_open_block' = g.ret
                /\ after.claimed_shares
                        = Append(before.claimed_shares, lowest)
                /\ Len(after.share_claims) = Len(before.share_claims) + 1
                /\ after = [before EXCEPT
                                !.claimed_shares = after.claimed_shares,
                                !.share_claims = after.share_claims]
                /\ ~after.is_closed
    ]_vars

\* the server has accepted a share that did not close the block, on a block
\* that already held a claim
C38_Witness ==
    /\ last.op = "submit_share"
    /\ last.ret.success
    /\ ~last.ret.is_block_find
    /\ last.ret.share_index > 0

\* C39: the coinbase of a block created by create_block pays exactly the
\* block reward for the block's height plus the fees of the transactions
\* included in that block, and the block holds at most
\* MAX_TRANSACTIONS_PER_BLOCK transactions, the coinbase among them,
\* whatever the size of the pending pool
C39_CoinbasePaysIncludedFees ==
    last.op = "get_or_create_open_block" =>
        LET block == blocks[last.blk]
            coinbase == block.transactions[1]
            included == Tail(block.transactions)
        IN  /\ coinbase.type = "coinbase"
            /\ Len(block.transactions) <= MAX_TRANSACTIONS_PER_BLOCK
            /\ coinbase.amount
                    = get_block_reward(Self, block.index).value
                        + SumFees(included)

====
